---------------------------- MODULE Spec2Model ----------------------------
(***************************************************************************)
(* A model of the statement categorisation core: parse_number,             *)
(* parse_date_smart, get_transaction_type, extract_invoice and             *)
(* extract_counterparty of common_categorization.py, and the line loop of  *)
(* extract_transactions_from_pdf and process_transactions of               *)
(* pdf_statement_processor.py.                                             *)
(*                                                                         *)
(* Python strings are TLA+ strings; a character is a string of length 1.   *)
(* Python values are records tagged with their type, so that a string, a   *)
(* float, None and a raised exception can be told apart.                   *)
(***************************************************************************)
EXTENDS Integers, Sequences, FiniteSets, TLC

VARIABLES
    arg,                  \* the argument of the function under call; for the line
                          \* loop, the statement it reads
    origin,               \* what the argument was rendered from (a date), or PyNone
    ret,                  \* its return value, Pending before the call
    lines,                \* the text lines the line loop has consumed so far
    in_transactions,      \* the loop's block flag
    current_transaction,  \* the pending record, or PyNone
    transactions,         \* the records appended so far
    result,               \* the rows handed to the DataFrame, Pending before the end
    successful,           \* main() of the batch: the files processed with success
    failed,               \* main() of the batch: the files that failed
    output_files,         \* main() of the batch: the output paths of the successes
    handled,              \* main() of the batch: the files its loop has handled
    workbooks,            \* the workbooks on disk: output path -> statement written
    pc                    \* "call", then the name of the function that returned;
                          \* "loop", then "done", for the line loop;
                          \* "batch", then "summary", for the batch

vars == <<arg, origin, ret, lines, in_transactions, current_transaction,
          transactions, result, successful, failed, output_files, handled,
          workbooks, pc>>

-----------------------------------------------------------------------------
(* Bounds of the model.                                                    *)

MaxNumLen == 4
MaxDay == 32
MaxMonth == 13
LastYear == 2025
MaxPhrases == 2
MaxLines == 4
MaxRows == 3

-----------------------------------------------------------------------------
(* Python values.                                                          *)

PyNone == [type |-> "NoneType"]
Pending == [type |-> "pending"]
PyStr(s) == [type |-> "str", s |-> s]
PyInt(i) == [type |-> "int", i |-> i]
ValueError == [type |-> "raise", exc |-> "ValueError"]

\* A float n * 10^-e, kept canonical: e = 0, or n is not a multiple of 10.
RECURSIVE Canon(_, _)
Canon(n, e) ==
    IF e > 0 /\ n % 10 = 0 THEN Canon(n \div 10, e - 1)
    ELSE [type |-> "float", n |-> n, e |-> e]

PyFloat(n, e) == Canon(n, e)
Zero == PyFloat(0, 0)
IsFloat(v) == v.type = "float"

\* The floats that are no decimal number: float('inf'), float('-inf'), float('nan')
Special(name) == [type |-> "float", special |-> name]
Inf == Special("inf")
NaN == Special("nan")
IsSpecial(v) == "special" \in DOMAIN v

Neg(v) ==
    IF IsSpecial(v)
    THEN (IF v = Inf THEN Special("-inf") ELSE IF v = NaN THEN NaN ELSE Inf)
    ELSE [v EXCEPT !.n = 0 - v.n]
IsPositive(v) == IF IsSpecial(v) THEN v = Inf ELSE v.n > 0
IsNegative(v) == IF IsSpecial(v) THEN v = Special("-inf") ELSE v.n < 0
Abs(v) == IF IsNegative(v) THEN Neg(v) ELSE v

-----------------------------------------------------------------------------
(* Strings.                                                                *)

At(s, i) == SubSeq(s, i, i)
Drop(s, n) == SubSeq(s, n + 1, Len(s))
Take(s, n) == SubSeq(s, 1, n)
Chars(s) == {At(s, i) : i \in 1..Len(s)}

\* The characters [0-9] matches
AsciiDigits == Chars("0123456789")

\* The decimal digits of every script, which \d matches and int() and float()
\* read: the digits of value 0, of value 1, and so on up to 9. (Of the
\* characters a string here cannot hold, U+0660-U+0669 and U+FF10-U+FF19
\* among them, none is listed.)
DecimalDigits ==
    <<"0۰߀০૦௦೦෦໐႐០᧐᪀᪐᮰꣐꧐꧰꯰",
      "1۱߁১૧௧೧෧໑႑១᧑᪁᪑᮱꣑꧑꧱꯱",
      "2۲߂২૨௨೨෨໒႒២᧒᪂᪒᮲꣒꧒꧲꯲",
      "3۳߃৩૩௩೩෩໓႓៣᧓᪃᪓᮳꣓꧓꧳꯳",
      "4۴߄৪૪௪೪෪໔႔៤᧔᪄᪔᮴꣔꧔꧴꯴",
      "5۵߅৫૫௫೫෫໕႕៥᧕᪅᪕᮵꣕꧕꧵꯵",
      "6۶߆৬૬௬೬෬໖႖៦᧖᪆᪖᮶꣖꧖꧶꯶",
      "7۷߇৭૭௭೭෭໗႗៧᧗᪇᪗᮷꣗꧗꧷꯷",
      "8۸߈৮૮௮೮෮໘႘៨᧘᪈᪘᮸꣘꧘꧸꯸",
      "9۹߉৯૯௯೯෯໙႙៩᧙᪉᪙᮹꣙꧙꧹꯹">>
Digits == UNION {Chars(DecimalDigits[v + 1]) : v \in 0..9}
DigitValue == [c \in Digits |-> CHOOSE v \in 0..9 : c \in Chars(DecimalDigits[v + 1])]

\* The characters str.isdigit() accepts beyond the decimal digits:
\* superscripts, subscripts, circled numbers. int() refuses them.
OtherDigitText ==
       "²³¹᧚₀₁₂₃₄₅₆₇₈₉⒈⒉⒊⒋⒌⒍⒎⒏⒐⓪⓵⓶⓷⓸⓹⓺⓻⓼⓽⓿➀➁➂➃➄➅➆➇➈➊➋➌➍➎➏➐➑➒"
OtherDigits == Chars(OtherDigitText)

\* The characters str.strip() removes and \s matches: the space, tab, newline,
\* carriage return, form feed, vertical tab, the four separators 0x1c-0x1f,
\* the next-line character, the no-break space and the ogham space mark
\* U+1680. (U+2000-U+200A, U+2028, U+2029, U+202F, U+205F and U+3000 are
\* whitespace too, and no string here can hold them.)
Whitespace == {" ", "\t", "\n", "\r", "\f", "", "", "", "", "", " ", "", " "}

\* The letters [A-Z] and [a-z] match
UpperLetters == "ABCDEFGHIJKLMNOPQRSTUVWXYZ"
LowerLetters == "abcdefghijklmnopqrstuvwxyz"
Letters == Chars(UpperLetters) \cup Chars(LowerLetters)

\* str.lower() character by character: the characters it changes and, at the
\* same place of the second text, what each becomes. The capital sigma is
\* apart, its lower case depending on its place in the word.
LowerFrom ==
       "ÀÁÂÃÄÅÆÇÈÉÊËÌÍÎÏÐÑÒÓÔÕÖØÙÚÛÜÝÞƂƄƇƋƎƑƘƠƢƤƦƧƩƬƮƯƱƲƳƵƷƸƼǄǅǇǈǊǋǍǏǑǓǕ"
    \o "ǗǙǛǞǠǢǤǦǨǪǬǮǱǲǴǶǷǸǺǼǾΆΈΉΊΌΎΏΑΒΓΔΕΖΗΘΙΚΛΜΝΞΟΠΡΤΥΦΧΨΩΪΫϏϘϚϜϞϠϢϤϦϨϪ"
    \o "ϬϮϴϷϹϺҀҊҌҎҐҒҔҖҘҚҜҞҠҢҤҦҨҪҬҮҰҲҴҶҸҺҼҾӀӁӃӅӇӉӋӍӐӒӔӖӘӚӜӞӠӢӤӦӨӪӬӮӰӲӴӶӸӺ"
    \o "ӼӾᎰᎱᎲᎳᎴᎵᎶᎷᎸᎹᎺᎻᎼᎽᎾᎿᏀᏁᏂᏃᏄᏅᏆᏇᏈᏉᏊᏋᏌᏍᏎᏏᏐᏑᏒᏓᏔᏕᏖᏗᏘᏙᏚᏛᏜᏝᏞᏟᏠᏡᏢᏣᏤᏥᏦᏧᏨᏩᏪᏫᏬᏭ"
    \o "ᏮᏯᏰᏱᏲᏳᏴᏵᲐᲑᲒᲓᲔᲕᲖᲗᲘᲙᲚᲛᲜᲝᲞᲟᲠᲡᲢᲣᲤᲥᲦᲧᲨᲩᲪᲫᲬᲭᲮᲯᲰᲱᲲᲳᲴᲵᲶᲷᲸᲹᲺᲽᲾᲿẀẂẄẆẈẊẌẎẐẒ"
    \o "ẔẞẠẢẤẦẨẪẬẮẰẲẴẶẸẺẼẾỀỂỄỆỈỊỌỎỐỒỔỖỘỚỜỞỠỢỤỦỨỪỬỮỰỲỴỶỸỺỼỾᾈᾉᾊᾋᾌᾍᾎᾏᾘᾙᾚᾛᾜᾝ"
    \o "ᾞᾟᾨᾩᾪᾫᾬᾭᾮᾯᾸᾹᾼῌῘῙῨῩῬῼↃⒶⒷⒸⒹⒺⒻⒼⒽⒾⒿⓀⓁⓂⓃⓄⓅⓆⓇⓈⓉⓊⓋⓌⓍⓎⓏⲀⲂⲄⲆⲈⲊⲌⲎⲐⲒⲔⲖⲘⲚⲜⲞⲠ"
    \o "ⲢⲤⲦⲨⲪⲬⲮⲰⲲⲴⲶⲸⲺⲼⲾⳀⳂⳄⳆⳈⳊⳌⳎⳐⳒⳔⳖⳘⳚⳜⳞⳠⳢⳫⳭⳲꚀꚂꚄꚆꚈꚊꚌꚎꚐꚒꚔꚖꚘꚚꞀꞂꞄꞆꞋꞐꞒꞖꞘꞚꞜꞞꞠꞢ"
    \o "ꞤꞦꞨꞰꞱꞲꞴꞶꞸꞺꞼꞾꟀꟂꟄꟅꟆꟇꟉꟐꟖꟘꟵ"
LowerTo ==
       "àáâãäåæçèéêëìíîïðñòóôõöøùúûüýþƃƅƈƌǝƒƙơƣƥʀƨʃƭʈưʊʋƴƶʒƹƽǆǆǉǉǌǌǎǐǒǔǖ"
    \o "ǘǚǜǟǡǣǥǧǩǫǭǯǳǳǵƕƿǹǻǽǿάέήίόύώαβγδεζηθικλμνξοπρτυφχψωϊϋϗϙϛϝϟϡϣϥϧϩϫ"
    \o "ϭϯθϸϲϻҁҋҍҏґғҕҗҙқҝҟҡңҥҧҩҫҭүұҳҵҷҹһҽҿӏӂӄӆӈӊӌӎӑӓӕӗәӛӝӟӡӣӥӧөӫӭӯӱӳӵӷӹӻ"
    \o "ӽӿꮀꮁꮂꮃꮄꮅꮆꮇꮈꮉꮊꮋꮌꮍꮎꮏꮐꮑꮒꮓꮔꮕꮖꮗꮘꮙꮚꮛꮜꮝꮞꮟꮠꮡꮢꮣꮤꮥꮦꮧꮨꮩꮪꮫꮬꮭꮮꮯꮰꮱꮲꮳꮴꮵꮶꮷꮸꮹꮺꮻꮼꮽ"
    \o "ꮾꮿᏸᏹᏺᏻᏼᏽაბგდევზთიკლმნოპჟრსტუფქღყშჩცძწჭხჯჰჱჲჳჴჵჶჷჸჹჺჽჾჿẁẃẅẇẉẋẍẏẑẓ"
    \o "ẕßạảấầẩẫậắằẳẵặẹẻẽếềểễệỉịọỏốồổỗộớờởỡợụủứừửữựỳỵỷỹỻỽỿᾀᾁᾂᾃᾄᾅᾆᾇᾐᾑᾒᾓᾔᾕ"
    \o "ᾖᾗᾠᾡᾢᾣᾤᾥᾦᾧᾰᾱᾳῃῐῑῠῡῥῳↄⓐⓑⓒⓓⓔⓕⓖⓗⓘⓙⓚⓛⓜⓝⓞⓟⓠⓡⓢⓣⓤⓥⓦⓧⓨⓩⲁⲃⲅⲇⲉⲋⲍⲏⲑⲓⲕⲗⲙⲛⲝⲟⲡ"
    \o "ⲣⲥⲧⲩⲫⲭⲯⲱⲳⲵⲷⲹⲻⲽⲿⳁⳃⳅⳇⳉⳋⳍⳏⳑⳓⳕⳗⳙⳛⳝⳟⳡⳣⳬⳮⳳꚁꚃꚅꚇꚉꚋꚍꚏꚑꚓꚕꚗꚙꚛꞁꞃꞅꞇꞌꞑꞓꞗꞙꞛꞝꞟꞡꞣ"
    \o "ꞥꞧꞩʞʇʝꞵꞷꞹꞻꞽꞿꟁꟃꞔʂᶎꟈꟊꟑꟗꟙꟶ"
\* The characters whose lower case is a character no string here can hold:
\* LowerOf has no value for them
LowerBeyondText ==
       "ƁƆƉƊƏƐƓƔƖƗƜƝƟϽϾϿႠႡႢႣႤႥႦႧႨႩႪႫႬႭႮႯႰႱႲႳႴႵႶႷႸႹႺႻႼႽႾႿჀჁჂჃჄჅჇჍᎠᎡᎢᎣᎤᎥᎦᎧ"
    \o "ᎨᎩᎪᎫᎬᎭᎮᎯᾺΆῈΈῊΉῚΊῪΎῸΌῺΏꞍꞪꞫꞬꞭꞮꞳ"
LowerBeyond == Chars(LowerBeyondText)
LowerOf ==
    [c \in Chars(UpperLetters) \cup Chars(LowerFrom) |->
        IF c \in Chars(UpperLetters)
        THEN At(LowerLetters, CHOOSE i \in 1..26 : At(UpperLetters, i) = c)
        ELSE At(LowerTo, CHOOSE i \in 1..Len(LowerFrom) : At(LowerFrom, i) = c)]

\* str.upper() character by character, the same way; some characters become
\* two or three
UpperFrom ==
       "µàáâãäåæçèéêëìíîïðñòóôõöøùúûüýþƃƅƈƌƒƕƙơƣƥƨƭưƴƶƹƽƿǅǆǈǉǋǌǎǐǒǔǖǘǚǜǝ"
    \o "ǟǡǣǥǧǩǫǭǯǲǳǵǹǻǽǿʀʂʃʇʈʊʋʒʝʞάέήίαβγδεζηθικλμνξοπρςστυφχψωϊϋόύώϐϑϕϖ"
    \o "ϗϙϛϝϟϡϣϥϧϩϫϭϯϰϱϲϵϸϻҁҋҍҏґғҕҗҙқҝҟҡңҥҧҩҫҭүұҳҵҷҹһҽҿӂӄӆӈӊӌӎӏӑӓӕӗәӛӝӟӡ"
    \o "ӣӥӧөӫӭӯӱӳӵӷӹӻӽӿაბგდევზთიკლმნოპჟრსტუფქღყშჩცძწჭხჯჰჱჲჳჴჵჶჷჸჹჺჽჾჿᏸᏹᏺ"
    \o "ᏻᏼᏽᶎẁẃẅẇẉẋẍẏẑẓẕạảấầẩẫậắằẳẵặẹẻẽếềểễệỉịọỏốồổỗộớờởỡợụủứừửữựỳỵỷỹỻỽỿᾰ"
    \o "ᾱιῐῑῠῡῥↄⓐⓑⓒⓓⓔⓕⓖⓗⓘⓙⓚⓛⓜⓝⓞⓟⓠⓡⓢⓣⓤⓥⓦⓧⓨⓩⲁⲃⲅⲇⲉⲋⲍⲏⲑⲓⲕⲗⲙⲛⲝⲟⲡⲣⲥⲧⲩⲫⲭⲯⲱⲳⲵⲷⲹⲻ"
    \o "ⲽⲿⳁⳃⳅⳇⳉⳋⳍⳏⳑⳓⳕⳗⳙⳛⳝⳟⳡⳣⳬⳮⳳꚁꚃꚅꚇꚉꚋꚍꚏꚑꚓꚕꚗꚙꚛꞁꞃꞅꞇꞌꞑꞓꞔꞗꞙꞛꞝꞟꞡꞣꞥꞧꞩꞵꞷꞹꞻꞽꞿꟁꟃꟈ"
    \o "ꟊꟑꟗꟙꟶꮀꮁꮂꮃꮄꮅꮆꮇꮈꮉꮊꮋꮌꮍꮎꮏꮐꮑꮒꮓꮔꮕꮖꮗꮘꮙꮚꮛꮜꮝꮞꮟꮠꮡꮢꮣꮤꮥꮦꮧꮨꮩꮪꮫꮬꮭꮮꮯꮰꮱꮲꮳꮴꮵꮶꮷꮸꮹꮺ"
    \o "ꮻꮼꮽꮾꮿ"
UpperTo ==
       "ΜÀÁÂÃÄÅÆÇÈÉÊËÌÍÎÏÐÑÒÓÔÕÖØÙÚÛÜÝÞƂƄƇƋƑǶƘƠƢƤƧƬƯƳƵƸƼǷǄǄǇǇǊǊǍǏǑǓǕǗǙǛƎ"
    \o "ǞǠǢǤǦǨǪǬǮǱǱǴǸǺǼǾƦꟅƩꞱƮƱƲƷꞲꞰΆΈΉΊΑΒΓΔΕΖΗΘΙΚΛΜΝΞΟΠΡΣΣΤΥΦΧΨΩΪΫΌΎΏΒΘΦΠ"
    \o "ϏϘϚϜϞϠϢϤϦϨϪϬϮΚΡϹΕϷϺҀҊҌҎҐҒҔҖҘҚҜҞҠҢҤҦҨҪҬҮҰҲҴҶҸҺҼҾӁӃӅӇӉӋӍӀӐӒӔӖӘӚӜӞӠ"
    \o "ӢӤӦӨӪӬӮӰӲӴӶӸӺӼӾᲐᲑᲒᲓᲔᲕᲖᲗᲘᲙᲚᲛᲜᲝᲞᲟᲠᲡᲢᲣᲤᲥᲦᲧᲨᲩᲪᲫᲬᲭᲮᲯᲰᲱᲲᲳᲴᲵᲶᲷᲸᲹᲺᲽᲾᲿᏰᏱᏲ"
    \o "ᏳᏴᏵꟆẀẂẄẆẈẊẌẎẐẒẔẠẢẤẦẨẪẬẮẰẲẴẶẸẺẼẾỀỂỄỆỈỊỌỎỐỒỔỖỘỚỜỞỠỢỤỦỨỪỬỮỰỲỴỶỸỺỼỾᾸ"
    \o "ᾹΙῘῙῨῩῬↃⒶⒷⒸⒹⒺⒻⒼⒽⒾⒿⓀⓁⓂⓃⓄⓅⓆⓇⓈⓉⓊⓋⓌⓍⓎⓏⲀⲂⲄⲆⲈⲊⲌⲎⲐⲒⲔⲖⲘⲚⲜⲞⲠⲢⲤⲦⲨⲪⲬⲮⲰⲲⲴⲶⲸⲺ"
    \o "ⲼⲾⳀⳂⳄⳆⳈⳊⳌⳎⳐⳒⳔⳖⳘⳚⳜⳞⳠⳢⳫⳭⳲꚀꚂꚄꚆꚈꚊꚌꚎꚐꚒꚔꚖꚘꚚꞀꞂꞄꞆꞋꞐꞒꟄꞖꞘꞚꞜꞞꞠꞢꞤꞦꞨꞴꞶꞸꞺꞼꞾꟀꟂꟇ"
    \o "ꟉꟐꟖꟘꟵᎰᎱᎲᎳᎴᎵᎶᎷᎸᎹᎺᎻᎼᎽᎾᎿᏀᏁᏂᏃᏄᏅᏆᏇᏈᏉᏊᏋᏌᏍᏎᏏᏐᏑᏒᏓᏔᏕᏖᏗᏘᏙᏚᏛᏜᏝᏞᏟᏠᏡᏢᏣᏤᏥᏦᏧᏨᏩᏪ"
    \o "ᏫᏬᏭᏮᏯ"
UpperExpanding ==
    <<<<"ß", "SS">>,
      <<"ẚ", "Aʾ">>,
      <<"ᾲ", "ᾺΙ">>,
      <<"ᾳ", "ΑΙ">>,
      <<"ᾴ", "ΆΙ">>,
      <<"ᾼ", "ΑΙ">>,
      <<"ῂ", "ῊΙ">>,
      <<"ῃ", "ΗΙ">>,
      <<"ῄ", "ΉΙ">>,
      <<"ῌ", "ΗΙ">>,
      <<"ῲ", "ῺΙ">>,
      <<"ῳ", "ΩΙ">>,
      <<"ῴ", "ΏΙ">>,
      <<"ῼ", "ΩΙ">>>>
\* The characters whose upper case holds a character no string here can hold:
\* UpperOf has no value for them
UpperBeyondText ==
       "ÿƀƚƞǰʉʌΐΰϳրցւփքօֆևᲀᲁᲂᲃᲄᲅᲆᲇᲈẖẗẘẙẛᾀᾁᾂᾃᾄᾅᾆᾇᾈᾉᾊᾋᾌᾍᾎᾏᾐᾑᾒᾓᾔᾕᾖᾗᾘᾙᾚᾛᾜᾝᾞᾟ"
    \o "ᾠᾡᾢᾣᾤᾥᾦᾧᾨᾩᾪᾫᾬᾭᾮᾯᾶᾷῆῇῒΐῖῗῢΰῤῦῧῶῷ"
UpperBeyond == Chars(UpperBeyondText)
UpperOf ==
    [c \in Chars(LowerLetters) \cup Chars(UpperFrom)
               \cup {UpperExpanding[i][1] : i \in 1..Len(UpperExpanding)} |->
        IF c \in Chars(LowerLetters)
        THEN At(UpperLetters, CHOOSE i \in 1..26 : At(LowerLetters, i) = c)
        ELSE IF c \in Chars(UpperFrom)
        THEN At(UpperTo, CHOOSE i \in 1..Len(UpperFrom) : At(UpperFrom, i) = c)
        ELSE UpperExpanding[CHOOSE i \in 1..Len(UpperExpanding) : UpperExpanding[i][1] = c][2]]

\* The characters with a letter case, and those that str.lower() passes over
\* when it looks for the letter before and after a capital sigma
CasedText ==
       "ABCDEFGHIJKLMNOPQRSTUVWXYZabcdefghijklmnopqrstuvwxyzªµºÀÁÂÃÄÅÆÇÈ"
    \o "ÉÊËÌÍÎÏÐÑÒÓÔÕÖØÙÚÛÜÝÞßàáâãäåæçèéêëìíîïðñòóôõöøùúûüýþÿƀƁƂƃƄƅƆƇƈƉƊ"
    \o "ƋƌƍƎƏƐƑƒƓƔƕƖƗƘƙƚƛƜƝƞƟƠơƢƣƤƥƦƧƨƩƪƫƬƭƮƯưƱƲƳƴƵƶƷƸƹƺƼƽƾƿǄǅǆǇǈǉǊǋǌǍǎǏ"
    \o "ǐǑǒǓǔǕǖǗǘǙǚǛǜǝǞǟǠǡǢǣǤǥǦǧǨǩǪǫǬǭǮǯǰǱǲǳǴǵǶǷǸǹǺǻǼǽǾǿʀʁʂʃʄʅʆʇʈʉʊʋʌʍʎʏ"
    \o "ʐʑʒʓʕʖʗʘʙʚʛʜʝʞʟʠʡʢʣʤʥʦʧʨʩʪʫʬʭʮʯΆΈΉΊΌΎΏΐΑΒΓΔΕΖΗΘΙΚΛΜΝΞΟΠΡΣΤΥΦΧΨΩΪ"
    \o "ΫάέήίΰαβγδεζηθικλμνξοπρςστυφχψωϊϋόύώϏϐϑϒϓϔϕϖϗϘϙϚϛϜϝϞϟϠϡϢϣϤϥϦϧϨϩϪ"
    \o "ϫϬϭϮϯϰϱϲϳϴϵϷϸϹϺϻϼϽϾϿҀҁҊҋҌҍҎҏҐґҒғҔҕҖҗҘҙҚқҜҝҞҟҠҡҢңҤҥҦҧҨҩҪҫҬҭҮүҰұҲҳ"
    \o "ҴҵҶҷҸҹҺһҼҽҾҿӀӁӂӃӄӅӆӇӈӉӊӋӌӍӎӏӐӑӒӓӔӕӖӗӘәӚӛӜӝӞӟӠӡӢӣӤӥӦӧӨөӪӫӬӭӮӯӰӱӲӳ"
    \o "ӴӵӶӷӸӹӺӻӼӽӾӿրցւփքօֆևֈႠႡႢႣႤႥႦႧႨႩႪႫႬႭႮႯႰႱႲႳႴႵႶႷႸႹႺႻႼႽႾႿჀჁჂჃჄჅჇჍაბგ"
    \o "დევზთიკლმნოპჟრსტუფქღყშჩცძწჭხჯჰჱჲჳჴჵჶჷჸჹჺჽჾჿᎠᎡᎢᎣᎤᎥᎦᎧᎨᎩᎪᎫᎬᎭᎮᎯᎰᎱᎲᎳᎴ"
    \o "ᎵᎶᎷᎸᎹᎺᎻᎼᎽᎾᎿᏀᏁᏂᏃᏄᏅᏆᏇᏈᏉᏊᏋᏌᏍᏎᏏᏐᏑᏒᏓᏔᏕᏖᏗᏘᏙᏚᏛᏜᏝᏞᏟᏠᏡᏢᏣᏤᏥᏦᏧᏨᏩᏪᏫᏬᏭᏮᏯᏰᏱᏲᏳᏴ"
    \o "ᏵᏸᏹᏺᏻᏼᏽᲀᲁᲂᲃᲄᲅᲆᲇᲈᲐᲑᲒᲓᲔᲕᲖᲗᲘᲙᲚᲛᲜᲝᲞᲟᲠᲡᲢᲣᲤᲥᲦᲧᲨᲩᲪᲫᲬᲭᲮᲯᲰᲱᲲᲳᲴᲵᲶᲷᲸᲹᲺᲽᲾᲿᶀᶁ"
    \o "ᶂᶃᶄᶅᶆᶇᶈᶉᶊᶋᶌᶍᶎᶏᶐᶑᶒᶓᶔᶕᶖᶗᶘᶙᶚẀẁẂẃẄẅẆẇẈẉẊẋẌẍẎẏẐẑẒẓẔẕẖẗẘẙẚẛẜẝẞẟẠạẢảẤấẦ"
    \o "ầẨẩẪẫẬậẮắẰằẲẳẴẵẶặẸẹẺẻẼẽẾếỀềỂểỄễỆệỈỉỊịỌọỎỏỐốỒồỔổỖỗỘộỚớỜờỞởỠỡỢợỤụỦ"
    \o "ủỨứỪừỬửỮữỰựỲỳỴỵỶỷỸỹỺỻỼỽỾỿᾀᾁᾂᾃᾄᾅᾆᾇᾈᾉᾊᾋᾌᾍᾎᾏᾐᾑᾒᾓᾔᾕᾖᾗᾘᾙᾚᾛᾜᾝᾞᾟᾠᾡᾢᾣᾤᾥᾦ"
    \o "ᾧᾨᾩᾪᾫᾬᾭᾮᾯᾰᾱᾲᾳᾴᾶᾷᾸᾹᾺΆᾼιῂῃῄῆῇῈΈῊΉῌῐῑῒΐῖῗῘῙῚΊῠῡῢΰῤῥῦῧῨῩῪΎῬῲῳῴῶῷῸΌῺΏ"
    \o "ῼↃↄⒶⒷⒸⒹⒺⒻⒼⒽⒾⒿⓀⓁⓂⓃⓄⓅⓆⓇⓈⓉⓊⓋⓌⓍⓎⓏⓐⓑⓒⓓⓔⓕⓖⓗⓘⓙⓚⓛⓜⓝⓞⓟⓠⓡⓢⓣⓤⓥⓦⓧⓨⓩⲀⲁⲂⲃⲄⲅⲆⲇⲈ"
    \o "ⲉⲊⲋⲌⲍⲎⲏⲐⲑⲒⲓⲔⲕⲖⲗⲘⲙⲚⲛⲜⲝⲞⲟⲠⲡⲢⲣⲤⲥⲦⲧⲨⲩⲪⲫⲬⲭⲮⲯⲰⲱⲲⲳⲴⲵⲶⲷⲸⲹⲺⲻⲼⲽⲾⲿⳀⳁⳂⳃⳄⳅⳆⳇⳈ"
    \o "ⳉⳊⳋⳌⳍⳎⳏⳐⳑⳒⳓⳔⳕⳖⳗⳘⳙⳚⳛⳜⳝⳞⳟⳠⳡⳢⳣⳤⳫⳬⳭⳮⳲⳳꚀꚁꚂꚃꚄꚅꚆꚇꚈꚉꚊꚋꚌꚍꚎꚏꚐꚑꚒꚓꚔꚕꚖꚗꚘꚙꚚꚛꞀꞁ"
    \o "ꞂꞃꞄꞅꞆꞇꞋꞌꞍꞎꞐꞑꞒꞓꞔꞕꞖꞗꞘꞙꞚꞛꞜꞝꞞꞟꞠꞡꞢꞣꞤꞥꞦꞧꞨꞩꞪꞫꞬꞭꞮꞯꞰꞱꞲꞳꞴꞵꞶꞷꞸꞹꞺꞻꞼꞽꞾꞿꟀꟁꟂꟃꟄꟅ"
    \o "ꟆꟇꟈꟉꟊꟐꟑꟓꟕꟖꟗꟘꟙꟵꟶꟺꮀꮁꮂꮃꮄꮅꮆꮇꮈꮉꮊꮋꮌꮍꮎꮏꮐꮑꮒꮓꮔꮕꮖꮗꮘꮙꮚꮛꮜꮝꮞꮟꮠꮡꮢꮣꮤꮥꮦꮧꮨꮩꮪꮫꮬꮭꮮꮯ"
    \o "ꮰꮱꮲꮳꮴꮵꮶꮷꮸꮹꮺꮻꮼꮽꮾꮿ"
CaseIgnorableText ==
       "'.:^¨­¯´·¸ʰʱʲʳʴʵʶʷʸʹʺʻʼʽʾʿˀˁ˂˃˄˅ˆˇˈˉˊˋˌˍˎˏːˑ˒˓˔˕˖˗˘˙˚˛˜˝˞˟ˠˡˢˣˤ"
    \o "˥˦˧˨˩˪˫ˬ˭ˮ˯˰˱˲˳˴˵˶˷˸˹˺˻˼˽˾˿΄΅·҃҄҅҆҇҈҉֑֖֛֢֣֤֥֦֧֪֚֒֓֔֕֗֘֙֜֝֞֟֠֡֨֩֫"
    \o "ְֱֲֳִֵֶַָׇֹֺֻּֽֿׁׂׅ֭֮֬֯ׄ״ۖۗۘۙۚۛۜ۝ۣ۟۠ۡۢۤۥۦ۪ۭۧۨ۫۬ަާިީުޫެޭޮޯް߫߬߭߮߯߰"
    \o "߲߱߳ߴߵߺ߽࢈࢐࢑࢙࢚࢛࢘࢜࢝࢞࢟ࣉ࣏࣐࣑࣒࣓࣊࣋࣌࣍࣎ࣔࣕࣖࣗࣘࣙࣚࣛࣜࣝࣞࣟ࣠࣡࣢ࣰࣱࣲࣣࣦࣩ࣭࣮࣯ࣶࣤࣥࣧࣨ࣪࣫࣬ࣳࣴࣵ"
    \o "ࣹࣺࣷࣸࣻࣼࣽࣾࣿঁ়ুূৃৄ্ৢৣ৾ઁં઼ુૂૃૄૅેૈ્ૢૣૺૻૼ૽૾૿ஂீ்ಁ಼ಿೆೌ್ೢೣඁ්ිීුූັິີຶື຺ຸູົ"
    \o "ຼໆ່້໊໋໌ໍ྄ཱྀྀྂྃ྆྇ྍྎྏྐྑྒྒྷྔྕྖྗྙྚྛྜྜྷྞྟྠྡྡྷྣྤྥྦྦྷྨྩྪྫྫྷྭྮྯྰྱྲླྴྵྶྷྸྐྵྺྻྼ࿆ႂ"
    \o "ႅႆႍႝჼ឴឵ិីឹឺុូួំ៉៊់៌៍៎៏័៑្៓ៗ៝ᢅᢆᢩᪧ᪵᪶᪷᪸᪹᪺᪽᪰᪱᪲᪳᪴᪻᪼᪾ᪿᫀ᫃᫄᫊᫁᫂᫅᫆᫇᫈᫉᫋ᫌᫍᫎᮀ"
    \o "ᮁᮢᮣᮤᮥᮨᮩ᮫ᮬᮭ᯦ᯨᯩᯭᯯᯰᯱ᳔᳢᳣᳤᳥᳦᳧᳨᳕᳖᳗᳘᳙᳜᳝᳞᳟᳭᳐᳑᳒᳚᳛᳠᳴᳸᳹ᶛᶜᶝᶞᶟᶠᶡᶢᶣᶤᶥᶦᶧᶨᶩᶪᶫᶬᶭᶮ"
    \o "ᶯᶰᶱᶲᶳᶴᶵᶶᶷᶸᶹᶺᶻᶼᶽᶾᶿ᷐᷎᷂᷊᷏᷀᷁᷃᷄᷅᷆᷇᷈᷉᷋᷌᷑᷒ᷓᷔᷕᷖᷗᷘᷙᷚᷛᷜᷝᷞᷟᷠᷡᷢᷣᷤᷥᷦᷧᷨᷩᷪᷫᷬᷭᷮ᷍"
    \o "᷺᷹᷽᷿᷷᷸ᷯᷰᷱᷲᷳᷴ᷵᷻᷾᷶᷼᾽᾿῀῁῍῎῏῝῞῟῭΅`´῾ₐₑₒₓₔₕₖₗₘₙₚₛₜ⃒⃓⃘⃙⃚⃐⃑⃔⃕⃖⃗⃛⃜⃝⃞⃟⃠⃡⃢"
    \o "⃣⃤⃥⃦⃪⃫゙゚⃨⃬⃭⃮⃯⃧⃩⃰⳯⳰⳱ⷠⷡⷢⷣⷤⷥⷦⷧⷨⷩⷪⷫⷬⷭⷮⷯⷰⷱⷲⷳⷴⷵⷶⷷⷸⷹⷺⷻⷼⷽⷾⷿ゛゜ゝゞーヽヾꓸꓹꓺꓻꓼꓽ"
    \o "ꚜꚝꚞꚟ꛰꛱ꞈ꞉꞊ꟲꟳꟴꟸꟹ꣄ꣅ꣠꣡꣢꣣꣤꣥꣦꣧꣨꣩꣪꣫꣬꣭꣮꣯꣰꣱ꣿꦀꦁꦂ꦳ꦶꦷꦸꦹꦼꦽꧏꧥꧦꪴꪰꪲꪳꪷꪸꪾ꪿꫁ꫝꫬꫭꫳꫴ꫶ꯥ"
    \o "ꯨ꯭﮲﮳﮴﮵﮶﮷﮸﮹﮺﮻﮼﮽﮾﮿﯀﯁﯂﻿ﾞﾟ￣￹￺￻"
Cased == Chars(CasedText)
CaseIgnorable == Chars(CaseIgnorableText)

\* The letters and digits beyond ASCII, which \w matches, sixty-four to a text
WordText ==
    <<"ª²³µ¹º¼½¾ÀÁÂÃÄÅÆÇÈÉÊËÌÍÎÏÐÑÒÓÔÕÖØÙÚÛÜÝÞßàáâãäåæçèéêëìíîïðñòóôõöø",
      "ùúûüýþÿƀƁƂƃƄƅƆƇƈƉƊƋƌƍƎƏƐƑƒƓƔƕƖƗƘƙƚƛƜƝƞƟƠơƢƣƤƥƦƧƨƩƪƫƬƭƮƯưƱƲƳƴƵƶƷƸ",
      "ƹƺƻƼƽƾƿǀǁǂǃǄǅǆǇǈǉǊǋǌǍǎǏǐǑǒǓǔǕǖǗǘǙǚǛǜǝǞǟǠǡǢǣǤǥǦǧǨǩǪǫǬǭǮǯǰǱǲǳǴǵǶǷǸ",
      "ǹǺǻǼǽǾǿʀʁʂʃʄʅʆʇʈʉʊʋʌʍʎʏʐʑʒʓʔʕʖʗʘʙʚʛʜʝʞʟʠʡʢʣʤʥʦʧʨʩʪʫʬʭʮʯʰʱʲʳʴʵʶʷʸ",
      "ʹʺʻʼʽʾʿˀˁˆˇˈˉˊˋˌˍˎˏːˑˠˡˢˣˤˬˮΆΈΉΊΌΎΏΐΑΒΓΔΕΖΗΘΙΚΛΜΝΞΟΠΡΣΤΥΦΧΨΩΪΫάέ",
      "ήίΰαβγδεζηθικλμνξοπρςστυφχψωϊϋόύώϏϐϑϒϓϔϕϖϗϘϙϚϛϜϝϞϟϠϡϢϣϤϥϦϧϨϩϪϫϬϭ",
      "ϮϯϰϱϲϳϴϵϷϸϹϺϻϼϽϾϿҀҁҊҋҌҍҎҏҐґҒғҔҕҖҗҘҙҚқҜҝҞҟҠҡҢңҤҥҦҧҨҩҪҫҬҭҮүҰұҲҳҴҵҶ",
      "ҷҸҹҺһҼҽҾҿӀӁӂӃӄӅӆӇӈӉӊӋӌӍӎӏӐӑӒӓӔӕӖӗӘәӚӛӜӝӞӟӠӡӢӣӤӥӦӧӨөӪӫӬӭӮӯӰӱӲӳӴӵӶ",
      "ӷӸӹӺӻӼӽӾӿրցւփքօֆևֈאבגדהוזחטיךכלםמןנסעףפץצקרשתׯװױײڀځڂڃڄڅچڇڈډڊڋڌڍڎ",
      "ڏڐڑڒړڔڕږڗژڙښڛڜڝڞڟڠڡڢڣڤڥڦڧڨکڪګڬڭڮگڰڱڲڳڴڵڶڷڸڹںڻڼڽھڿۀہۂۃۄۅۆۇۈۉۊۋیۍێ",
      "ۏېۑےۓەۥۦۮۯ۰۱۲۳۴۵۶۷۸۹ۺۻۼۿހށނރބޅކއވމފދތލގޏސޑޒޓޔޕޖޗޘޙޚޛޜޝޞޟޠޡޢޣޤޥޱ߀",
      "߁߂߃߄߅߆߇߈߉ߊߋߌߍߎߏߐߑߒߓߔߕߖߗߘߙߚߛߜߝߞߟߠߡߢߣߤߥߦߧߨߩߪߴߵߺࢀࢁࢂࢃࢄࢅࢆࢇࢉࢊࢋࢌࢍࢎࢠࢡࢢࢣࢤ",
      "ࢥࢦࢧࢨࢩࢪࢫࢬࢭࢮࢯࢰࢱࢲࢳࢴࢵࢶࢷࢸࢹࢺࢻࢼࢽࢾࢿࣀࣁࣂࣃࣄࣅࣆࣇࣈࣉঀঅআইঈউঊঋঌএঐওঔকখগঘঙচছজঝঞটঠডঢ",
      "ণতথদধনপফবভমযরলশষসহঽৎড়ঢ়য়ৠৡ০১২৩৪৫৬৭৮৯ৰৱ৴৵৶৷৸৹ৼઅઆઇઈઉઊઋઌઍએઐઑઓઔકખગઘઙચ",
      "છજઝઞટઠડઢણતથદધનપફબભમયરલળવશષસહઽૐૠૡ૦૧૨૩૪૫૬૭૮૯ૹஃஅஆஇஈஉஊஎஏஐஒஓஔகஙசஜஞடணத",
      "நனபமயரறலளழவஶஷஸஹௐ௦௧௨௩௪௫௬௭௮௯௰௱௲ಀಅಆಇಈಉಊಋಌಎಏಐಒಓಔಕಖಗಘಙಚಛಜಝಞಟಠಡಢಣತಥದಧನ",
      "ಪಫಬಭಮಯರಱಲಳವಶಷಸಹಽೝೞೠೡ೦೧೨೩೪೫೬೭೮೯ೱೲඅආඇඈඉඊඋඌඍඎඏඐඑඒඓඔඕඖකඛගඝඞඟචඡජඣඤඥඦට",
      "ඨඩඪණඬතථදධනඳපඵබභමඹයරලවශෂසහළෆ෦෧෨෩෪෫෬෭෮෯ກຂຄຆງຈຉຊຌຍຎຏຐຑຒຓດຕຖທຘນບປຜຝພ",
      "ຟຠມຢຣລວຨຩສຫຬອຮຯະາຳຽເແໂໃໄໆ໐໑໒໓໔໕໖໗໘໙ໜໝໞໟྈྉྊྋྌႀႁႎ႐႑႒႓႔႕႖႗႘႙ႠႡႢႣႤႥႦ",
      "ႧႨႩႪႫႬႭႮႯႰႱႲႳႴႵႶႷႸႹႺႻႼႽႾႿჀჁჂჃჄჅჇჍაბგდევზთიკლმნოპჟრსტუფქღყშჩცძწჭხ",
      "ჯჰჱჲჳჴჵჶჷჸჹჺჼჽჾჿᆀᆁᆂᆃᆄᆅᆆᆇᆈᆉᆊᆋᆌᆍᆎᆏᆐᆑᆒᆓᆔᆕᆖᆗᆘᆙᆚᆛᆜᆝᆞᆟᆠᆡᆢᆣᆤᆥᆦᆧᆨᆩᆪᆫᆬᆭᆮᆯ",
      "ᆰᆱᆲᆳᆴᆵᆶᆷᆸᆹᆺᆻᆼᆽᆾᆿᇀᇁᇂᇃᇄᇅᇆᇇᇈᇉᇊᇋᇌᇍᇎᇏᇐᇑᇒᇓᇔᇕᇖᇗᇘᇙᇚᇛᇜᇝᇞᇟᇠᇡᇢᇣᇤᇥᇦᇧᇨᇩᇪᇫᇬᇭᇮᇯ",
      "ᇰᇱᇲᇳᇴᇵᇶᇷᇸᇹᇺᇻᇼᇽᇾᇿኀኁኂኃኄኅኆኇኈኊኋኌኍነኑኒናኔንኖኗኘኙኚኛኜኝኞኟአኡኢኣኤእኦኧከኩኪካኬክኮኯኰኲኳ",
      "ኴኵኸኹኺኻኼኽኾዀዂዃዄዅወዉዊዋዌውዎዏዐዑዒዓዔዕዖዘዙዚዛዜዝዞዟዠዡዢዣዤዥዦዧየዩዪያዬይዮዯደዱዲዳዴድዶዷዸዹዺ",
      "ዻዼዽዾዿᎀᎁᎂᎃᎄᎅᎆᎇᎈᎉᎊᎋᎌᎍᎎᎏᎠᎡᎢᎣᎤᎥᎦᎧᎨᎩᎪᎫᎬᎭᎮᎯᎰᎱᎲᎳᎴᎵᎶᎷᎸᎹᎺᎻᎼᎽᎾᎿᏀᏁᏂᏃᏄᏅᏆᏇᏈᏉᏊ",
      "ᏋᏌᏍᏎᏏᏐᏑᏒᏓᏔᏕᏖᏗᏘᏙᏚᏛᏜᏝᏞᏟᏠᏡᏢᏣᏤᏥᏦᏧᏨᏩᏪᏫᏬᏭᏮᏯᏰᏱᏲᏳᏴᏵᏸᏹᏺᏻᏼᏽᒀᒁᒂᒃᒄᒅᒆᒇᒈᒉᒊᒋᒌᒍᒎ",
      "ᒏᒐᒑᒒᒓᒔᒕᒖᒗᒘᒙᒚᒛᒜᒝᒞᒟᒠᒡᒢᒣᒤᒥᒦᒧᒨᒩᒪᒫᒬᒭᒮᒯᒰᒱᒲᒳᒴᒵᒶᒷᒸᒹᒺᒻᒼᒽᒾᒿᓀᓁᓂᓃᓄᓅᓆᓇᓈᓉᓊᓋᓌᓍᓎ",
      "ᓏᓐᓑᓒᓓᓔᓕᓖᓗᓘᓙᓚᓛᓜᓝᓞᓟᓠᓡᓢᓣᓤᓥᓦᓧᓨᓩᓪᓫᓬᓭᓮᓯᓰᓱᓲᓳᓴᓵᓶᓷᓸᓹᓺᓻᓼᓽᓾᓿᖀᖁᖂᖃᖄᖅᖆᖇᖈᖉᖊᖋᖌᖍᖎ",
      "ᖏᖐᖑᖒᖓᖔᖕᖖᖗᖘᖙᖚᖛᖜᖝᖞᖟᖠᖡᖢᖣᖤᖥᖦᖧᖨᖩᖪᖫᖬᖭᖮᖯᖰᖱᖲᖳᖴᖵᖶᖷᖸᖹᖺᖻᖼᖽᖾᖿᗀᗁᗂᗃᗄᗅᗆᗇᗈᗉᗊᗋᗌᗍᗎ",
      "ᗏᗐᗑᗒᗓᗔᗕᗖᗗᗘᗙᗚᗛᗜᗝᗞᗟᗠᗡᗢᗣᗤᗥᗦᗧᗨᗩᗪᗫᗬᗭᗮᗯᗰᗱᗲᗳᗴᗵᗶᗷᗸᗹᗺᗻᗼᗽᗾᗿᚁᚂᚃᚄᚅᚆᚇᚈᚉᚊᚋᚌᚍᚎᚏ",
      "ᚐᚑᚒᚓᚔᚕᚖᚗᚘᚙᚚᚠᚡᚢᚣᚤᚥᚦᚧᚨᚩᚪᚫᚬᚭᚮᚯᚰᚱᚲᚳᚴᚵᚶᚷᚸᚹᚺᚻᚼᚽᚾᚿᛀᛁᛂᛃᛄᛅᛆᛇᛈᛉᛊᛋᛌᛍᛎᛏᛐᛑᛒᛓᛔ",
      "ᛕᛖᛗᛘᛙᛚᛛᛜᛝᛞᛟᛠᛡᛢᛣᛤᛥᛦᛧᛨᛩᛪᛮᛯᛰᛱᛲᛳᛴᛵᛶᛷᛸកខគឃងចឆជឈញដឋឌឍណតថទធនបផពភមយរលវឝឞ",
      "សហឡអឣឤឥឦឧឨឩឪឫឬឭឮឯឰឱឲឳៗៜ០១២៣៤៥៦៧៨៩៰៱៲៳៴៵៶៷៸៹ᢀᢁᢂᢃᢄᢇᢈᢉᢊᢋᢌᢍᢎᢏᢐᢑᢒᢓᢔᢕᢖ",
      "ᢗᢘᢙᢚᢛᢜᢝᢞᢟᢠᢡᢢᢣᢤᢥᢦᢧᢨᢪᢰᢱᢲᢳᢴᢵᢶᢷᢸᢹᢺᢻᢼᢽᢾᢿᣀᣁᣂᣃᣄᣅᣆᣇᣈᣉᣊᣋᣌᣍᣎᣏᣐᣑᣒᣓᣔᣕᣖᣗᣘᣙᣚᣛᣜ",
      "ᣝᣞᣟᣠᣡᣢᣣᣤᣥᣦᣧᣨᣩᣪᣫᣬᣭᣮᣯᣰᣱᣲᣳᣴᣵᦀᦁᦂᦃᦄᦅᦆᦇᦈᦉᦊᦋᦌᦍᦎᦏᦐᦑᦒᦓᦔᦕᦖᦗᦘᦙᦚᦛᦜᦝᦞᦟᦠᦡᦢᦣᦤᦥᦦ",
      "ᦧᦨᦩᦪᦫᦰᦱᦲᦳᦴᦵᦶᦷᦸᦹᦺᦻᦼᦽᦾᦿᧀᧁᧂᧃᧄᧅᧆᧇᧈᧉ᧐᧑᧒᧓᧔᧕᧖᧗᧘᧙᧚᪀᪁᪂᪃᪄᪅᪆᪇᪈᪉᪐᪑᪒᪓᪔᪕᪖᪗᪘᪙ᪧᮃ",
      "ᮄᮅᮆᮇᮈᮉᮊᮋᮌᮍᮎᮏᮐᮑᮒᮓᮔᮕᮖᮗᮘᮙᮚᮛᮜᮝᮞᮟᮠᮮᮯ᮰᮱᮲᮳᮴᮵᮶᮷᮸᮹ᮺᮻᮼᮽᮾᮿᯀᯁᯂᯃᯄᯅᯆᯇᯈᯉᯊᯋᯌᯍᯎᯏᯐ",
      "ᯑᯒᯓᯔᯕᯖᯗᯘᯙᯚᯛᯜᯝᯞᯟᯠᯡᯢᯣᯤᯥᲀᲁᲂᲃᲄᲅᲆᲇᲈᲐᲑᲒᲓᲔᲕᲖᲗᲘᲙᲚᲛᲜᲝᲞᲟᲠᲡᲢᲣᲤᲥᲦᲧᲨᲩᲪᲫᲬᲭᲮᲯᲰᲱ",
      "ᲲᲳᲴᲵᲶᲷᲸᲹᲺᲽᲾᲿᳩᳪᳫᳬᳮᳯᳰᳱᳲᳳᳵᳶᳺᶀᶁᶂᶃᶄᶅᶆᶇᶈᶉᶊᶋᶌᶍᶎᶏᶐᶑᶒᶓᶔᶕᶖᶗᶘᶙᶚᶛᶜᶝᶞᶟᶠᶡᶢᶣᶤᶥᶦ",
      "ᶧᶨᶩᶪᶫᶬᶭᶮᶯᶰᶱᶲᶳᶴᶵᶶᶷᶸᶹᶺᶻᶼᶽᶾᶿẀẁẂẃẄẅẆẇẈẉẊẋẌẍẎẏẐẑẒẓẔẕẖẗẘẙẚẛẜẝẞẟẠạẢảẤấẦ",
      "ầẨẩẪẫẬậẮắẰằẲẳẴẵẶặẸẹẺẻẼẽẾếỀềỂểỄễỆệỈỉỊịỌọỎỏỐốỒồỔổỖỗỘộỚớỜờỞởỠỡỢợỤụỦ",
      "ủỨứỪừỬửỮữỰựỲỳỴỵỶỷỸỹỺỻỼỽỾỿᾀᾁᾂᾃᾄᾅᾆᾇᾈᾉᾊᾋᾌᾍᾎᾏᾐᾑᾒᾓᾔᾕᾖᾗᾘᾙᾚᾛᾜᾝᾞᾟᾠᾡᾢᾣᾤᾥᾦ",
      "ᾧᾨᾩᾪᾫᾬᾭᾮᾯᾰᾱᾲᾳᾴᾶᾷᾸᾹᾺΆᾼιῂῃῄῆῇῈΈῊΉῌῐῑῒΐῖῗῘῙῚΊῠῡῢΰῤῥῦῧῨῩῪΎῬῲῳῴῶῷῸΌῺΏ",
      "ῼ₀₁₂₃₄₅₆₇₈₉ₐₑₒₓₔₕₖₗₘₙₚₛₜↀↁↂↃↄↅↆↇↈ↉⒀⒁⒂⒃⒄⒅⒆⒇⒈⒉⒊⒋⒌⒍⒎⒏⒐⒑⒒⒓⒔⒕⒖⒗⒘⒙⒚⒛⓪⓫",
      "⓬⓭⓮⓯⓰⓱⓲⓳⓴⓵⓶⓷⓸⓹⓺⓻⓼⓽⓾⓿➀➁➂➃➄➅➆➇➈➉➊➋➌➍➎➏➐➑➒➓ⲀⲁⲂⲃⲄⲅⲆⲇⲈⲉⲊⲋⲌⲍⲎⲏⲐⲑⲒⲓⲔⲕⲖⲗ",
      "ⲘⲙⲚⲛⲜⲝⲞⲟⲠⲡⲢⲣⲤⲥⲦⲧⲨⲩⲪⲫⲬⲭⲮⲯⲰⲱⲲⲳⲴⲵⲶⲷⲸⲹⲺⲻⲼⲽⲾⲿⳀⳁⳂⳃⳄⳅⳆⳇⳈⳉⳊⳋⳌⳍⳎⳏⳐⳑⳒⳓⳔⳕⳖⳗ",
      "ⳘⳙⳚⳛⳜⳝⳞⳟⳠⳡⳢⳣⳤⳫⳬⳭⳮⳲⳳ⳽ⶀⶁⶂⶃⶄⶅⶆⶇⶈⶉⶊⶋⶌⶍⶎⶏⶐⶑⶒⶓⶔⶕⶖⶠⶡⶢⶣⶤⶥⶦⶨⶩⶪⶫⶬⶭⶮⶰⶱⶲⶳⶴⶵⶶ",
      "ⶸⶹⶺⶻⶼⶽⶾⷀⷁⷂⷃⷄⷅⷆⷈⷉⷊⷋⷌⷍⷎⷐⷑⷒⷓⷔⷕⷖⷘⷙⷚⷛⷜⷝⷞむめもゃやゅゆょよらりるれろゎわゐゑをんゔゕゖゝゞゟァアィ",
      "イゥウェエォオカガキギクグケゲコゴサザシジスズセゼソゾタダチヂッツヅテデトドナニヌネノハバパヒビピフブプヘベペホボポマミムメモャ",
      "ヤュユョヨラリルレロヮワヰヱヲンヴヵヶヷヸヹヺーヽヾヿㆀㆁㆂㆃㆄㆅㆆㆇㆈㆉㆊㆋㆌㆍㆎ㆒㆓㆔㆕ㆠㆡㆢㆣㆤㆥㆦㆧㆨㆩㆪㆫㆬㆭㆮㆯㆰㆱ",
      "ㆲㆳㆴㆵㆶㆷㆸㆹㆺㆻㆼㆽㆾㆿㇰㇱㇲㇳㇴㇵㇶㇷㇸㇹㇺㇻㇼㇽㇾㇿ㊀㊁㊂㊃㊄㊅㊆㊇㊈㊉㊱㊲㊳㊴㊵㊶㊷㊸㊹㊺㊻㊼㊽㊾㊿㒀㒁㒂㒃㒄㒅㒆㒇㒈",
      "㒉㒊㒋㒌㒍㒎㒏㒐㒑㒒㒓㒔㒕㒖㒗㒘㒙㒚㒛㒜㒝㒞㒟㒠㒡㒢㒣㒤㒥㒦㒧㒨㒩㒪㒫㒬㒭㒮㒯㒰㒱㒲㒳㒴㒵㒶㒷㒸㒹㒺㒻㒼㒽㒾㒿㓀㓁㓂㓃㓄㓅㓆㓇㓈",
      "㓉㓊㓋㓌㓍㓎㓏㓐㓑㓒㓓㓔㓕㓖㓗㓘㓙㓚㓛㓜㓝㓞㓟㓠㓡㓢㓣㓤㓥㓦㓧㓨㓩㓪㓫㓬㓭㓮㓯㓰㓱㓲㓳㓴㓵㓶㓷㓸㓹㓺㓻㓼㓽㓾㓿㖀㖁㖂㖃㖄㖅㖆㖇㖈",
      "㖉㖊㖋㖌㖍㖎㖏㖐㖑㖒㖓㖔㖕㖖㖗㖘㖙㖚㖛㖜㖝㖞㖟㖠㖡㖢㖣㖤㖥㖦㖧㖨㖩㖪㖫㖬㖭㖮㖯㖰㖱㖲㖳㖴㖵㖶㖷㖸㖹㖺㖻㖼㖽㖾㖿㗀㗁㗂㗃㗄㗅㗆㗇㗈",
      "㗉㗊㗋㗌㗍㗎㗏㗐㗑㗒㗓㗔㗕㗖㗗㗘㗙㗚㗛㗜㗝㗞㗟㗠㗡㗢㗣㗤㗥㗦㗧㗨㗩㗪㗫㗬㗭㗮㗯㗰㗱㗲㗳㗴㗵㗶㗷㗸㗹㗺㗻㗼㗽㗾㗿㚀㚁㚂㚃㚄㚅㚆㚇㚈",
      "㚉㚊㚋㚌㚍㚎㚏㚐㚑㚒㚓㚔㚕㚖㚗㚘㚙㚚㚛㚜㚝㚞㚟㚠㚡㚢㚣㚤㚥㚦㚧㚨㚩㚪㚫㚬㚭㚮㚯㚰㚱㚲㚳㚴㚵㚶㚷㚸㚹㚺㚻㚼㚽㚾㚿㛀㛁㛂㛃㛄㛅㛆㛇㛈",
      "㛉㛊㛋㛌㛍㛎㛏㛐㛑㛒㛓㛔㛕㛖㛗㛘㛙㛚㛛㛜㛝㛞㛟㛠㛡㛢㛣㛤㛥㛦㛧㛨㛩㛪㛫㛬㛭㛮㛯㛰㛱㛲㛳㛴㛵㛶㛷㛸㛹㛺㛻㛼㛽㛾㛿㞀㞁㞂㞃㞄㞅㞆㞇㞈",
      "㞉㞊㞋㞌㞍㞎㞏㞐㞑㞒㞓㞔㞕㞖㞗㞘㞙㞚㞛㞜㞝㞞㞟㞠㞡㞢㞣㞤㞥㞦㞧㞨㞩㞪㞫㞬㞭㞮㞯㞰㞱㞲㞳㞴㞵㞶㞷㞸㞹㞺㞻㞼㞽㞾㞿㟀㟁㟂㟃㟄㟅㟆㟇㟈",
      "㟉㟊㟋㟌㟍㟎㟏㟐㟑㟒㟓㟔㟕㟖㟗㟘㟙㟚㟛㟜㟝㟞㟟㟠㟡㟢㟣㟤㟥㟦㟧㟨㟩㟪㟫㟬㟭㟮㟯㟰㟱㟲㟳㟴㟵㟶㟷㟸㟹㟺㟻㟼㟽㟾㟿㢀㢁㢂㢃㢄㢅㢆㢇㢈",
      "㢉㢊㢋㢌㢍㢎㢏㢐㢑㢒㢓㢔㢕㢖㢗㢘㢙㢚㢛㢜㢝㢞㢟㢠㢡㢢㢣㢤㢥㢦㢧㢨㢩㢪㢫㢬㢭㢮㢯㢰㢱㢲㢳㢴㢵㢶㢷㢸㢹㢺㢻㢼㢽㢾㢿㣀㣁㣂㣃㣄㣅㣆㣇㣈",
      "㣉㣊㣋㣌㣍㣎㣏㣐㣑㣒㣓㣔㣕㣖㣗㣘㣙㣚㣛㣜㣝㣞㣟㣠㣡㣢㣣㣤㣥㣦㣧㣨㣩㣪㣫㣬㣭㣮㣯㣰㣱㣲㣳㣴㣵㣶㣷㣸㣹㣺㣻㣼㣽㣾㣿㦀㦁㦂㦃㦄㦅㦆㦇㦈",
      "㦉㦊㦋㦌㦍㦎㦏㦐㦑㦒㦓㦔㦕㦖㦗㦘㦙㦚㦛㦜㦝㦞㦟㦠㦡㦢㦣㦤㦥㦦㦧㦨㦩㦪㦫㦬㦭㦮㦯㦰㦱㦲㦳㦴㦵㦶㦷㦸㦹㦺㦻㦼㦽㦾㦿㧀㧁㧂㧃㧄㧅㧆㧇㧈",
      "㧉㧊㧋㧌㧍㧎㧏㧐㧑㧒㧓㧔㧕㧖㧗㧘㧙㧚㧛㧜㧝㧞㧟㧠㧡㧢㧣㧤㧥㧦㧧㧨㧩㧪㧫㧬㧭㧮㧯㧰㧱㧲㧳㧴㧵㧶㧷㧸㧹㧺㧻㧼㧽㧾㧿㪀㪁㪂㪃㪄㪅㪆㪇㪈",
      "㪉㪊㪋㪌㪍㪎㪏㪐㪑㪒㪓㪔㪕㪖㪗㪘㪙㪚㪛㪜㪝㪞㪟㪠㪡㪢㪣㪤㪥㪦㪧㪨㪩㪪㪫㪬㪭㪮㪯㪰㪱㪲㪳㪴㪵㪶㪷㪸㪹㪺㪻㪼㪽㪾㪿㫀㫁㫂㫃㫄㫅㫆㫇㫈",
      "㫉㫊㫋㫌㫍㫎㫏㫐㫑㫒㫓㫔㫕㫖㫗㫘㫙㫚㫛㫜㫝㫞㫟㫠㫡㫢㫣㫤㫥㫦㫧㫨㫩㫪㫫㫬㫭㫮㫯㫰㫱㫲㫳㫴㫵㫶㫷㫸㫹㫺㫻㫼㫽㫾㫿㮀㮁㮂㮃㮄㮅㮆㮇㮈",
      "㮉㮊㮋㮌㮍㮎㮏㮐㮑㮒㮓㮔㮕㮖㮗㮘㮙㮚㮛㮜㮝㮞㮟㮠㮡㮢㮣㮤㮥㮦㮧㮨㮩㮪㮫㮬㮭㮮㮯㮰㮱㮲㮳㮴㮵㮶㮷㮸㮹㮺㮻㮼㮽㮾㮿㯀㯁㯂㯃㯄㯅㯆㯇㯈",
      "㯉㯊㯋㯌㯍㯎㯏㯐㯑㯒㯓㯔㯕㯖㯗㯘㯙㯚㯛㯜㯝㯞㯟㯠㯡㯢㯣㯤㯥㯦㯧㯨㯩㯪㯫㯬㯭㯮㯯㯰㯱㯲㯳㯴㯵㯶㯷㯸㯹㯺㯻㯼㯽㯾㯿㲀㲁㲂㲃㲄㲅㲆㲇㲈",
      "㲉㲊㲋㲌㲍㲎㲏㲐㲑㲒㲓㲔㲕㲖㲗㲘㲙㲚㲛㲜㲝㲞㲟㲠㲡㲢㲣㲤㲥㲦㲧㲨㲩㲪㲫㲬㲭㲮㲯㲰㲱㲲㲳㲴㲵㲶㲷㲸㲹㲺㲻㲼㲽㲾㲿㳀㳁㳂㳃㳄㳅㳆㳇㳈",
      "㳉㳊㳋㳌㳍㳎㳏㳐㳑㳒㳓㳔㳕㳖㳗㳘㳙㳚㳛㳜㳝㳞㳟㳠㳡㳢㳣㳤㳥㳦㳧㳨㳩㳪㳫㳬㳭㳮㳯㳰㳱㳲㳳㳴㳵㳶㳷㳸㳹㳺㳻㳼㳽㳾㳿㶀㶁㶂㶃㶄㶅㶆㶇㶈",
      "㶉㶊㶋㶌㶍㶎㶏㶐㶑㶒㶓㶔㶕㶖㶗㶘㶙㶚㶛㶜㶝㶞㶟㶠㶡㶢㶣㶤㶥㶦㶧㶨㶩㶪㶫㶬㶭㶮㶯㶰㶱㶲㶳㶴㶵㶶㶷㶸㶹㶺㶻㶼㶽㶾㶿㷀㷁㷂㷃㷄㷅㷆㷇㷈",
      "㷉㷊㷋㷌㷍㷎㷏㷐㷑㷒㷓㷔㷕㷖㷗㷘㷙㷚㷛㷜㷝㷞㷟㷠㷡㷢㷣㷤㷥㷦㷧㷨㷩㷪㷫㷬㷭㷮㷯㷰㷱㷲㷳㷴㷵㷶㷷㷸㷹㷺㷻㷼㷽㷾㷿㺀㺁㺂㺃㺄㺅㺆㺇㺈",
      "㺉㺊㺋㺌㺍㺎㺏㺐㺑㺒㺓㺔㺕㺖㺗㺘㺙㺚㺛㺜㺝㺞㺟㺠㺡㺢㺣㺤㺥㺦㺧㺨㺩㺪㺫㺬㺭㺮㺯㺰㺱㺲㺳㺴㺵㺶㺷㺸㺹㺺㺻㺼㺽㺾㺿㻀㻁㻂㻃㻄㻅㻆㻇㻈",
      "㻉㻊㻋㻌㻍㻎㻏㻐㻑㻒㻓㻔㻕㻖㻗㻘㻙㻚㻛㻜㻝㻞㻟㻠㻡㻢㻣㻤㻥㻦㻧㻨㻩㻪㻫㻬㻭㻮㻯㻰㻱㻲㻳㻴㻵㻶㻷㻸㻹㻺㻻㻼㻽㻾㻿㾀㾁㾂㾃㾄㾅㾆㾇㾈",
      "㾉㾊㾋㾌㾍㾎㾏㾐㾑㾒㾓㾔㾕㾖㾗㾘㾙㾚㾛㾜㾝㾞㾟㾠㾡㾢㾣㾤㾥㾦㾧㾨㾩㾪㾫㾬㾭㾮㾯㾰㾱㾲㾳㾴㾵㾶㾷㾸㾹㾺㾻㾼㾽㾾㾿㿀㿁㿂㿃㿄㿅㿆㿇㿈",
      "㿉㿊㿋㿌㿍㿎㿏㿐㿑㿒㿓㿔㿕㿖㿗㿘㿙㿚㿛㿜㿝㿞㿟㿠㿡㿢㿣㿤㿥㿦㿧㿨㿩㿪㿫㿬㿭㿮㿯㿰㿱㿲㿳㿴㿵㿶㿷㿸㿹㿺㿻㿼㿽㿾㿿䂀䂁䂂䂃䂄䂅䂆䂇䂈",
      "䂉䂊䂋䂌䂍䂎䂏䂐䂑䂒䂓䂔䂕䂖䂗䂘䂙䂚䂛䂜䂝䂞䂟䂠䂡䂢䂣䂤䂥䂦䂧䂨䂩䂪䂫䂬䂭䂮䂯䂰䂱䂲䂳䂴䂵䂶䂷䂸䂹䂺䂻䂼䂽䂾䂿䃀䃁䃂䃃䃄䃅䃆䃇䃈",
      "䃉䃊䃋䃌䃍䃎䃏䃐䃑䃒䃓䃔䃕䃖䃗䃘䃙䃚䃛䃜䃝䃞䃟䃠䃡䃢䃣䃤䃥䃦䃧䃨䃩䃪䃫䃬䃭䃮䃯䃰䃱䃲䃳䃴䃵䃶䃷䃸䃹䃺䃻䃼䃽䃾䃿䆀䆁䆂䆃䆄䆅䆆䆇䆈",
      "䆉䆊䆋䆌䆍䆎䆏䆐䆑䆒䆓䆔䆕䆖䆗䆘䆙䆚䆛䆜䆝䆞䆟䆠䆡䆢䆣䆤䆥䆦䆧䆨䆩䆪䆫䆬䆭䆮䆯䆰䆱䆲䆳䆴䆵䆶䆷䆸䆹䆺䆻䆼䆽䆾䆿䇀䇁䇂䇃䇄䇅䇆䇇䇈",
      "䇉䇊䇋䇌䇍䇎䇏䇐䇑䇒䇓䇔䇕䇖䇗䇘䇙䇚䇛䇜䇝䇞䇟䇠䇡䇢䇣䇤䇥䇦䇧䇨䇩䇪䇫䇬䇭䇮䇯䇰䇱䇲䇳䇴䇵䇶䇷䇸䇹䇺䇻䇼䇽䇾䇿䊀䊁䊂䊃䊄䊅䊆䊇䊈",
      "䊉䊊䊋䊌䊍䊎䊏䊐䊑䊒䊓䊔䊕䊖䊗䊘䊙䊚䊛䊜䊝䊞䊟䊠䊡䊢䊣䊤䊥䊦䊧䊨䊩䊪䊫䊬䊭䊮䊯䊰䊱䊲䊳䊴䊵䊶䊷䊸䊹䊺䊻䊼䊽䊾䊿䋀䋁䋂䋃䋄䋅䋆䋇䋈",
      "䋉䋊䋋䋌䋍䋎䋏䋐䋑䋒䋓䋔䋕䋖䋗䋘䋙䋚䋛䋜䋝䋞䋟䋠䋡䋢䋣䋤䋥䋦䋧䋨䋩䋪䋫䋬䋭䋮䋯䋰䋱䋲䋳䋴䋵䋶䋷䋸䋹䋺䋻䋼䋽䋾䋿䎀䎁䎂䎃䎄䎅䎆䎇䎈",
      "䎉䎊䎋䎌䎍䎎䎏䎐䎑䎒䎓䎔䎕䎖䎗䎘䎙䎚䎛䎜䎝䎞䎟䎠䎡䎢䎣䎤䎥䎦䎧䎨䎩䎪䎫䎬䎭䎮䎯䎰䎱䎲䎳䎴䎵䎶䎷䎸䎹䎺䎻䎼䎽䎾䎿䏀䏁䏂䏃䏄䏅䏆䏇䏈",
      "䏉䏊䏋䏌䏍䏎䏏䏐䏑䏒䏓䏔䏕䏖䏗䏘䏙䏚䏛䏜䏝䏞䏟䏠䏡䏢䏣䏤䏥䏦䏧䏨䏩䏪䏫䏬䏭䏮䏯䏰䏱䏲䏳䏴䏵䏶䏷䏸䏹䏺䏻䏼䏽䏾䏿䒀䒁䒂䒃䒄䒅䒆䒇䒈",
      "䒉䒊䒋䒌䒍䒎䒏䒐䒑䒒䒓䒔䒕䒖䒗䒘䒙䒚䒛䒜䒝䒞䒟䒠䒡䒢䒣䒤䒥䒦䒧䒨䒩䒪䒫䒬䒭䒮䒯䒰䒱䒲䒳䒴䒵䒶䒷䒸䒹䒺䒻䒼䒽䒾䒿䓀䓁䓂䓃䓄䓅䓆䓇䓈",
      "䓉䓊䓋䓌䓍䓎䓏䓐䓑䓒䓓䓔䓕䓖䓗䓘䓙䓚䓛䓜䓝䓞䓟䓠䓡䓢䓣䓤䓥䓦䓧䓨䓩䓪䓫䓬䓭䓮䓯䓰䓱䓲䓳䓴䓵䓶䓷䓸䓹䓺䓻䓼䓽䓾䓿䖀䖁䖂䖃䖄䖅䖆䖇䖈",
      "䖉䖊䖋䖌䖍䖎䖏䖐䖑䖒䖓䖔䖕䖖䖗䖘䖙䖚䖛䖜䖝䖞䖟䖠䖡䖢䖣䖤䖥䖦䖧䖨䖩䖪䖫䖬䖭䖮䖯䖰䖱䖲䖳䖴䖵䖶䖷䖸䖹䖺䖻䖼䖽䖾䖿䗀䗁䗂䗃䗄䗅䗆䗇䗈",
      "䗉䗊䗋䗌䗍䗎䗏䗐䗑䗒䗓䗔䗕䗖䗗䗘䗙䗚䗛䗜䗝䗞䗟䗠䗡䗢䗣䗤䗥䗦䗧䗨䗩䗪䗫䗬䗭䗮䗯䗰䗱䗲䗳䗴䗵䗶䗷䗸䗹䗺䗻䗼䗽䗾䗿䚀䚁䚂䚃䚄䚅䚆䚇䚈",
      "䚉䚊䚋䚌䚍䚎䚏䚐䚑䚒䚓䚔䚕䚖䚗䚘䚙䚚䚛䚜䚝䚞䚟䚠䚡䚢䚣䚤䚥䚦䚧䚨䚩䚪䚫䚬䚭䚮䚯䚰䚱䚲䚳䚴䚵䚶䚷䚸䚹䚺䚻䚼䚽䚾䚿䛀䛁䛂䛃䛄䛅䛆䛇䛈",
      "䛉䛊䛋䛌䛍䛎䛏䛐䛑䛒䛓䛔䛕䛖䛗䛘䛙䛚䛛䛜䛝䛞䛟䛠䛡䛢䛣䛤䛥䛦䛧䛨䛩䛪䛫䛬䛭䛮䛯䛰䛱䛲䛳䛴䛵䛶䛷䛸䛹䛺䛻䛼䛽䛾䛿䞀䞁䞂䞃䞄䞅䞆䞇䞈",
      "䞉䞊䞋䞌䞍䞎䞏䞐䞑䞒䞓䞔䞕䞖䞗䞘䞙䞚䞛䞜䞝䞞䞟䞠䞡䞢䞣䞤䞥䞦䞧䞨䞩䞪䞫䞬䞭䞮䞯䞰䞱䞲䞳䞴䞵䞶䞷䞸䞹䞺䞻䞼䞽䞾䞿䟀䟁䟂䟃䟄䟅䟆䟇䟈",
      "䟉䟊䟋䟌䟍䟎䟏䟐䟑䟒䟓䟔䟕䟖䟗䟘䟙䟚䟛䟜䟝䟞䟟䟠䟡䟢䟣䟤䟥䟦䟧䟨䟩䟪䟫䟬䟭䟮䟯䟰䟱䟲䟳䟴䟵䟶䟷䟸䟹䟺䟻䟼䟽䟾䟿䢀䢁䢂䢃䢄䢅䢆䢇䢈",
      "䢉䢊䢋䢌䢍䢎䢏䢐䢑䢒䢓䢔䢕䢖䢗䢘䢙䢚䢛䢜䢝䢞䢟䢠䢡䢢䢣䢤䢥䢦䢧䢨䢩䢪䢫䢬䢭䢮䢯䢰䢱䢲䢳䢴䢵䢶䢷䢸䢹䢺䢻䢼䢽䢾䢿䣀䣁䣂䣃䣄䣅䣆䣇䣈",
      "䣉䣊䣋䣌䣍䣎䣏䣐䣑䣒䣓䣔䣕䣖䣗䣘䣙䣚䣛䣜䣝䣞䣟䣠䣡䣢䣣䣤䣥䣦䣧䣨䣩䣪䣫䣬䣭䣮䣯䣰䣱䣲䣳䣴䣵䣶䣷䣸䣹䣺䣻䣼䣽䣾䣿䦀䦁䦂䦃䦄䦅䦆䦇䦈",
      "䦉䦊䦋䦌䦍䦎䦏䦐䦑䦒䦓䦔䦕䦖䦗䦘䦙䦚䦛䦜䦝䦞䦟䦠䦡䦢䦣䦤䦥䦦䦧䦨䦩䦪䦫䦬䦭䦮䦯䦰䦱䦲䦳䦴䦵䦶䦷䦸䦹䦺䦻䦼䦽䦾䦿䧀䧁䧂䧃䧄䧅䧆䧇䧈",
      "䧉䧊䧋䧌䧍䧎䧏䧐䧑䧒䧓䧔䧕䧖䧗䧘䧙䧚䧛䧜䧝䧞䧟䧠䧡䧢䧣䧤䧥䧦䧧䧨䧩䧪䧫䧬䧭䧮䧯䧰䧱䧲䧳䧴䧵䧶䧷䧸䧹䧺䧻䧼䧽䧾䧿䪀䪁䪂䪃䪄䪅䪆䪇䪈",
      "䪉䪊䪋䪌䪍䪎䪏䪐䪑䪒䪓䪔䪕䪖䪗䪘䪙䪚䪛䪜䪝䪞䪟䪠䪡䪢䪣䪤䪥䪦䪧䪨䪩䪪䪫䪬䪭䪮䪯䪰䪱䪲䪳䪴䪵䪶䪷䪸䪹䪺䪻䪼䪽䪾䪿䫀䫁䫂䫃䫄䫅䫆䫇䫈",
      "䫉䫊䫋䫌䫍䫎䫏䫐䫑䫒䫓䫔䫕䫖䫗䫘䫙䫚䫛䫜䫝䫞䫟䫠䫡䫢䫣䫤䫥䫦䫧䫨䫩䫪䫫䫬䫭䫮䫯䫰䫱䫲䫳䫴䫵䫶䫷䫸䫹䫺䫻䫼䫽䫾䫿䮀䮁䮂䮃䮄䮅䮆䮇䮈",
      "䮉䮊䮋䮌䮍䮎䮏䮐䮑䮒䮓䮔䮕䮖䮗䮘䮙䮚䮛䮜䮝䮞䮟䮠䮡䮢䮣䮤䮥䮦䮧䮨䮩䮪䮫䮬䮭䮮䮯䮰䮱䮲䮳䮴䮵䮶䮷䮸䮹䮺䮻䮼䮽䮾䮿䯀䯁䯂䯃䯄䯅䯆䯇䯈",
      "䯉䯊䯋䯌䯍䯎䯏䯐䯑䯒䯓䯔䯕䯖䯗䯘䯙䯚䯛䯜䯝䯞䯟䯠䯡䯢䯣䯤䯥䯦䯧䯨䯩䯪䯫䯬䯭䯮䯯䯰䯱䯲䯳䯴䯵䯶䯷䯸䯹䯺䯻䯼䯽䯾䯿䲀䲁䲂䲃䲄䲅䲆䲇䲈",
      "䲉䲊䲋䲌䲍䲎䲏䲐䲑䲒䲓䲔䲕䲖䲗䲘䲙䲚䲛䲜䲝䲞䲟䲠䲡䲢䲣䲤䲥䲦䲧䲨䲩䲪䲫䲬䲭䲮䲯䲰䲱䲲䲳䲴䲵䲶䲷䲸䲹䲺䲻䲼䲽䲾䲿䳀䳁䳂䳃䳄䳅䳆䳇䳈",
      "䳉䳊䳋䳌䳍䳎䳏䳐䳑䳒䳓䳔䳕䳖䳗䳘䳙䳚䳛䳜䳝䳞䳟䳠䳡䳢䳣䳤䳥䳦䳧䳨䳩䳪䳫䳬䳭䳮䳯䳰䳱䳲䳳䳴䳵䳶䳷䳸䳹䳺䳻䳼䳽䳾䳿䶀䶁䶂䶃䶄䶅䶆䶇䶈",
      "䶉䶊䶋䶌䶍䶎䶏䶐䶑䶒䶓䶔䶕䶖䶗䶘䶙䶚䶛䶜䶝䶞䶟䶠䶡䶢䶣䶤䶥䶦䶧䶨䶩䶪䶫䶬䶭䶮䶯䶰䶱䶲䶳䶴䶵䶶䶷䶸䶹䶺䶻䶼䶽䶾䶿亀亁亂亃亄亅了亇予",
      "争亊事二亍于亏亐云互亓五井亖亗亘亙亚些亜亝亞亟亠亡亢亣交亥亦产亨亩亪享京亭亮亯亰亱亲亳亴亵亶亷亸亹人亻亼亽亾亿什仁仂仃仄仅仆仇仈",
      "仉今介仌仍从仏仐仑仒仓仔仕他仗付仙仚仛仜仝仞仟仠仡仢代令以仦仧仨仩仪仫们仭仮仯仰仱仲仳仴仵件价仸仹仺任仼份仾仿侀侁侂侃侄侅來侇侈",
      "侉侊例侌侍侎侏侐侑侒侓侔侕侖侗侘侙侚供侜依侞侟侠価侢侣侤侥侦侧侨侩侪侫侬侭侮侯侰侱侲侳侴侵侶侷侸侹侺侻侼侽侾便俀俁係促俄俅俆俇俈",
      "俉俊俋俌俍俎俏俐俑俒俓俔俕俖俗俘俙俚俛俜保俞俟俠信俢俣俤俥俦俧俨俩俪俫俬俭修俯俰俱俲俳俴俵俶俷俸俹俺俻俼俽俾俿傀傁傂傃傄傅傆傇傈",
      "傉傊傋傌傍傎傏傐傑傒傓傔傕傖傗傘備傚傛傜傝傞傟傠傡傢傣傤傥傦傧储傩傪傫催傭傮傯傰傱傲傳傴債傶傷傸傹傺傻傼傽傾傿僀僁僂僃僄僅僆僇僈",
      "僉僊僋僌働僎像僐僑僒僓僔僕僖僗僘僙僚僛僜僝僞僟僠僡僢僣僤僥僦僧僨僩僪僫僬僭僮僯僰僱僲僳僴僵僶僷僸價僺僻僼僽僾僿冀冁冂冃冄内円冇冈",
      "冉冊冋册再冎冏冐冑冒冓冔冕冖冗冘写冚军农冝冞冟冠冡冢冣冤冥冦冧冨冩冪冫冬冭冮冯冰冱冲决冴况冶冷冸冹冺冻冼冽冾冿净凁凂凃凄凅准凇凈",
      "凉凊凋凌凍凎减凐凑凒凓凔凕凖凗凘凙凚凛凜凝凞凟几凡凢凣凤凥処凧凨凩凪凫凬凭凮凯凰凱凲凳凴凵凶凷凸凹出击凼函凾凿劀劁劂劃劄劅劆劇劈",
      "劉劊劋劌劍劎劏劐劑劒劓劔劕劖劗劘劙劚力劜劝办功加务劢劣劤劥劦劧动助努劫劬劭劮劯劰励劲劳労劵劶劷劸効劺劻劼劽劾势勀勁勂勃勄勅勆勇勈",
      "勉勊勋勌勍勎勏勐勑勒勓勔動勖勗勘務勚勛勜勝勞募勠勡勢勣勤勥勦勧勨勩勪勫勬勭勮勯勰勱勲勳勴勵勶勷勸勹勺勻勼勽勾勿厀厁厂厃厄厅历厇厈",
      "厉厊压厌厍厎厏厐厑厒厓厔厕厖厗厘厙厚厛厜厝厞原厠厡厢厣厤厥厦厧厨厩厪厫厬厭厮厯厰厱厲厳厴厵厶厷厸厹厺去厼厽厾县叀叁参參叄叅叆叇又",
      "叉及友双反収叏叐发叒叓叔叕取受变叙叚叛叜叝叞叟叠叡叢口古句另叧叨叩只叫召叭叮可台叱史右叴叵叶号司叹叺叻叼叽叾叿咀咁咂咃咄咅咆咇咈",
      "咉咊咋和咍咎咏咐咑咒咓咔咕咖咗咘咙咚咛咜咝咞咟咠咡咢咣咤咥咦咧咨咩咪咫咬咭咮咯咰咱咲咳咴咵咶咷咸咹咺咻咼咽咾咿哀品哂哃哄哅哆哇哈",
      "哉哊哋哌响哎哏哐哑哒哓哔哕哖哗哘哙哚哛哜哝哞哟哠員哢哣哤哥哦哧哨哩哪哫哬哭哮哯哰哱哲哳哴哵哶哷哸哹哺哻哼哽哾哿喀喁喂喃善喅喆喇喈",
      "喉喊喋喌喍喎喏喐喑喒喓喔喕喖喗喘喙喚喛喜喝喞喟喠喡喢喣喤喥喦喧喨喩喪喫喬喭單喯喰喱喲喳喴喵営喷喸喹喺喻喼喽喾喿嗀嗁嗂嗃嗄嗅嗆嗇嗈",
      "嗉嗊嗋嗌嗍嗎嗏嗐嗑嗒嗓嗔嗕嗖嗗嗘嗙嗚嗛嗜嗝嗞嗟嗠嗡嗢嗣嗤嗥嗦嗧嗨嗩嗪嗫嗬嗭嗮嗯嗰嗱嗲嗳嗴嗵嗶嗷嗸嗹嗺嗻嗼嗽嗾嗿嚀嚁嚂嚃嚄嚅嚆嚇嚈",
      "嚉嚊嚋嚌嚍嚎嚏嚐嚑嚒嚓嚔嚕嚖嚗嚘嚙嚚嚛嚜嚝嚞嚟嚠嚡嚢嚣嚤嚥嚦嚧嚨嚩嚪嚫嚬嚭嚮嚯嚰嚱嚲嚳嚴嚵嚶嚷嚸嚹嚺嚻嚼嚽嚾嚿囀囁囂囃囄囅囆囇囈",
      "囉囊囋囌囍囎囏囐囑囒囓囔囕囖囗囘囙囚四囜囝回囟因囡团団囤囥囦囧囨囩囪囫囬园囮囯困囱囲図围囵囶囷囸囹固囻囼国图囿垀垁垂垃垄垅垆垇垈",
      "垉垊型垌垍垎垏垐垑垒垓垔垕垖垗垘垙垚垛垜垝垞垟垠垡垢垣垤垥垦垧垨垩垪垫垬垭垮垯垰垱垲垳垴垵垶垷垸垹垺垻垼垽垾垿埀埁埂埃埄埅埆埇埈",
      "埉埊埋埌埍城埏埐埑埒埓埔埕埖埗埘埙埚埛埜埝埞域埠埡埢埣埤埥埦埧埨埩埪埫埬埭埮埯埰埱埲埳埴埵埶執埸培基埻埼埽埾埿墀墁墂境墄墅墆墇墈",
      "墉墊墋墌墍墎墏墐墑墒墓墔墕墖増墘墙墚墛墜墝增墟墠墡墢墣墤墥墦墧墨墩墪墫墬墭墮墯墰墱墲墳墴墵墶墷墸墹墺墻墼墽墾墿壀壁壂壃壄壅壆壇壈",
      "壉壊壋壌壍壎壏壐壑壒壓壔壕壖壗壘壙壚壛壜壝壞壟壠壡壢壣壤壥壦壧壨壩壪士壬壭壮壯声壱売壳壴壵壶壷壸壹壺壻壼壽壾壿妀妁如妃妄妅妆妇妈",
      "妉妊妋妌妍妎妏妐妑妒妓妔妕妖妗妘妙妚妛妜妝妞妟妠妡妢妣妤妥妦妧妨妩妪妫妬妭妮妯妰妱妲妳妴妵妶妷妸妹妺妻妼妽妾妿姀姁姂姃姄姅姆姇姈",
      "姉姊始姌姍姎姏姐姑姒姓委姕姖姗姘姙姚姛姜姝姞姟姠姡姢姣姤姥姦姧姨姩姪姫姬姭姮姯姰姱姲姳姴姵姶姷姸姹姺姻姼姽姾姿媀媁媂媃媄媅媆媇媈",
      "媉媊媋媌媍媎媏媐媑媒媓媔媕媖媗媘媙媚媛媜媝媞媟媠媡媢媣媤媥媦媧媨媩媪媫媬媭媮媯媰媱媲媳媴媵媶媷媸媹媺媻媼媽媾媿嫀嫁嫂嫃嫄嫅嫆嫇嫈",
      "嫉嫊嫋嫌嫍嫎嫏嫐嫑嫒嫓嫔嫕嫖嫗嫘嫙嫚嫛嫜嫝嫞嫟嫠嫡嫢嫣嫤嫥嫦嫧嫨嫩嫪嫫嫬嫭嫮嫯嫰嫱嫲嫳嫴嫵嫶嫷嫸嫹嫺嫻嫼嫽嫾嫿宀宁宂它宄宅宆宇守",
      "安宊宋完宍宎宏宐宑宒宓宔宕宖宗官宙定宛宜宝实実宠审客宣室宥宦宧宨宩宪宫宬宭宮宯宰宱宲害宴宵家宷宸容宺宻宼宽宾宿寀寁寂寃寄寅密寇寈",
      "寉寊寋富寍寎寏寐寑寒寓寔寕寖寗寘寙寚寛寜寝寞察寠寡寢寣寤寥實寧寨審寪寫寬寭寮寯寰寱寲寳寴寵寶寷寸对寺寻导寽対寿岀岁岂岃岄岅岆岇岈",
      "岉岊岋岌岍岎岏岐岑岒岓岔岕岖岗岘岙岚岛岜岝岞岟岠岡岢岣岤岥岦岧岨岩岪岫岬岭岮岯岰岱岲岳岴岵岶岷岸岹岺岻岼岽岾岿峀峁峂峃峄峅峆峇峈",
      "峉峊峋峌峍峎峏峐峑峒峓峔峕峖峗峘峙峚峛峜峝峞峟峠峡峢峣峤峥峦峧峨峩峪峫峬峭峮峯峰峱峲峳峴峵島峷峸峹峺峻峼峽峾峿嶀嶁嶂嶃嶄嶅嶆嶇嶈",
      "嶉嶊嶋嶌嶍嶎嶏嶐嶑嶒嶓嶔嶕嶖嶗嶘嶙嶚嶛嶜嶝嶞嶟嶠嶡嶢嶣嶤嶥嶦嶧嶨嶩嶪嶫嶬嶭嶮嶯嶰嶱嶲嶳嶴嶵嶶嶷嶸嶹嶺嶻嶼嶽嶾嶿巀巁巂巃巄巅巆巇巈",
      "巉巊巋巌巍巎巏巐巑巒巓巔巕巖巗巘巙巚巛巜川州巟巠巡巢巣巤工左巧巨巩巪巫巬巭差巯巰己已巳巴巵巶巷巸巹巺巻巼巽巾巿庀庁庂広庄庅庆庇庈",
      "庉床庋庌庍庎序庐庑庒库应底庖店庘庙庚庛府庝庞废庠庡庢庣庤庥度座庨庩庪庫庬庭庮庯庰庱庲庳庴庵庶康庸庹庺庻庼庽庾庿廀廁廂廃廄廅廆廇廈",
      "廉廊廋廌廍廎廏廐廑廒廓廔廕廖廗廘廙廚廛廜廝廞廟廠廡廢廣廤廥廦廧廨廩廪廫廬廭廮廯廰廱廲廳廴廵延廷廸廹建廻廼廽廾廿往征徂徃径待徆徇很",
      "徉徊律後徍徎徏徐徑徒従徔徕徖得徘徙徚徛徜徝從徟徠御徢徣徤徥徦徧徨復循徫徬徭微徯徰徱徲徳徴徵徶德徸徹徺徻徼徽徾徿忀忁忂心忄必忆忇忈",
      "忉忊忋忌忍忎忏忐忑忒忓忔忕忖志忘忙忚忛応忝忞忟忠忡忢忣忤忥忦忧忨忩忪快忬忭忮忯忰忱忲忳忴念忶忷忸忹忺忻忼忽忾忿悀悁悂悃悄悅悆悇悈",
      "悉悊悋悌悍悎悏悐悑悒悓悔悕悖悗悘悙悚悛悜悝悞悟悠悡悢患悤悥悦悧您悩悪悫悬悭悮悯悰悱悲悳悴悵悶悷悸悹悺悻悼悽悾悿惀惁惂惃惄情惆惇惈",
      "惉惊惋惌惍惎惏惐惑惒惓惔惕惖惗惘惙惚惛惜惝惞惟惠惡惢惣惤惥惦惧惨惩惪惫惬惭惮惯惰惱惲想惴惵惶惷惸惹惺惻惼惽惾惿憀憁憂憃憄憅憆憇憈",
      "憉憊憋憌憍憎憏憐憑憒憓憔憕憖憗憘憙憚憛憜憝憞憟憠憡憢憣憤憥憦憧憨憩憪憫憬憭憮憯憰憱憲憳憴憵憶憷憸憹憺憻憼憽憾憿懀懁懂懃懄懅懆懇懈",
      "應懊懋懌懍懎懏懐懑懒懓懔懕懖懗懘懙懚懛懜懝懞懟懠懡懢懣懤懥懦懧懨懩懪懫懬懭懮懯懰懱懲懳懴懵懶懷懸懹懺懻懼懽懾懿技抁抂抃抄抅抆抇抈",
      "抉把抋抌抍抎抏抐抑抒抓抔投抖抗折抙抚抛抜抝択抟抠抡抢抣护报抦抧抨抩抪披抬抭抮抯抰抱抲抳抴抵抶抷抸抹抺抻押抽抾抿拀拁拂拃拄担拆拇拈",
      "拉拊拋拌拍拎拏拐拑拒拓拔拕拖拗拘拙拚招拜拝拞拟拠拡拢拣拤拥拦拧拨择拪拫括拭拮拯拰拱拲拳拴拵拶拷拸拹拺拻拼拽拾拿掀掁掂掃掄掅掆掇授",
      "掉掊掋掌掍掎掏掐掑排掓掔掕掖掗掘掙掚掛掜掝掞掟掠採探掣掤接掦控推掩措掫掬掭掮掯掰掱掲掳掴掵掶掷掸掹掺掻掼掽掾掿揀揁揂揃揄揅揆揇揈",
      "揉揊揋揌揍揎描提揑插揓揔揕揖揗揘揙揚換揜揝揞揟揠握揢揣揤揥揦揧揨揩揪揫揬揭揮揯揰揱揲揳援揵揶揷揸揹揺揻揼揽揾揿撀撁撂撃撄撅撆撇撈",
      "撉撊撋撌撍撎撏撐撑撒撓撔撕撖撗撘撙撚撛撜撝撞撟撠撡撢撣撤撥撦撧撨撩撪撫撬播撮撯撰撱撲撳撴撵撶撷撸撹撺撻撼撽撾撿擀擁擂擃擄擅擆擇擈",
      "擉擊擋擌操擎擏擐擑擒擓擔擕擖擗擘擙據擛擜擝擞擟擠擡擢擣擤擥擦擧擨擩擪擫擬擭擮擯擰擱擲擳擴擵擶擷擸擹擺擻擼擽擾擿斀斁斂斃斄斅斆文斈",
      "斉斊斋斌斍斎斏斐斑斒斓斔斕斖斗斘料斚斛斜斝斞斟斠斡斢斣斤斥斦斧斨斩斪斫斬断斮斯新斱斲斳斴斵斶斷斸方斺斻於施斾斿旀旁旂旃旄旅旆旇旈",
      "旉旊旋旌旍旎族旐旑旒旓旔旕旖旗旘旙旚旛旜旝旞旟无旡既旣旤日旦旧旨早旪旫旬旭旮旯旰旱旲旳旴旵时旷旸旹旺旻旼旽旾旿暀暁暂暃暄暅暆暇暈",
      "暉暊暋暌暍暎暏暐暑暒暓暔暕暖暗暘暙暚暛暜暝暞暟暠暡暢暣暤暥暦暧暨暩暪暫暬暭暮暯暰暱暲暳暴暵暶暷暸暹暺暻暼暽暾暿曀曁曂曃曄曅曆曇曈",
      "曉曊曋曌曍曎曏曐曑曒曓曔曕曖曗曘曙曚曛曜曝曞曟曠曡曢曣曤曥曦曧曨曩曪曫曬曭曮曯曰曱曲曳更曵曶曷書曹曺曻曼曽曾替枀极枂枃构枅枆枇枈",
      "枉枊枋枌枍枎枏析枑枒枓枔枕枖林枘枙枚枛果枝枞枟枠枡枢枣枤枥枦枧枨枩枪枫枬枭枮枯枰枱枲枳枴枵架枷枸枹枺枻枼枽枾枿柀柁柂柃柄柅柆柇柈",
      "柉柊柋柌柍柎柏某柑柒染柔柕柖柗柘柙柚柛柜柝柞柟柠柡柢柣柤查柦柧柨柩柪柫柬柭柮柯柰柱柲柳柴柵柶柷柸柹柺査柼柽柾柿梀梁梂梃梄梅梆梇梈",
      "梉梊梋梌梍梎梏梐梑梒梓梔梕梖梗梘梙梚梛梜條梞梟梠梡梢梣梤梥梦梧梨梩梪梫梬梭梮梯械梱梲梳梴梵梶梷梸梹梺梻梼梽梾梿检棁棂棃棄棅棆棇棈",
      "棉棊棋棌棍棎棏棐棑棒棓棔棕棖棗棘棙棚棛棜棝棞棟棠棡棢棣棤棥棦棧棨棩棪棫棬棭森棯棰棱棲棳棴棵棶棷棸棹棺棻棼棽棾棿榀榁概榃榄榅榆榇榈",
      "榉榊榋榌榍榎榏榐榑榒榓榔榕榖榗榘榙榚榛榜榝榞榟榠榡榢榣榤榥榦榧榨榩榪榫榬榭榮榯榰榱榲榳榴榵榶榷榸榹榺榻榼榽榾榿槀槁槂槃槄槅槆槇槈",
      "槉槊構槌槍槎槏槐槑槒槓槔槕槖槗様槙槚槛槜槝槞槟槠槡槢槣槤槥槦槧槨槩槪槫槬槭槮槯槰槱槲槳槴槵槶槷槸槹槺槻槼槽槾槿檀檁檂檃檄檅檆檇檈",
      "檉檊檋檌檍檎檏檐檑檒檓檔檕檖檗檘檙檚檛檜檝檞檟檠檡檢檣檤檥檦檧檨檩檪檫檬檭檮檯檰檱檲檳檴檵檶檷檸檹檺檻檼檽檾檿櫀櫁櫂櫃櫄櫅櫆櫇櫈",
      "櫉櫊櫋櫌櫍櫎櫏櫐櫑櫒櫓櫔櫕櫖櫗櫘櫙櫚櫛櫜櫝櫞櫟櫠櫡櫢櫣櫤櫥櫦櫧櫨櫩櫪櫫櫬櫭櫮櫯櫰櫱櫲櫳櫴櫵櫶櫷櫸櫹櫺櫻櫼櫽櫾櫿殀殁殂殃殄殅殆殇殈",
      "殉殊残殌殍殎殏殐殑殒殓殔殕殖殗殘殙殚殛殜殝殞殟殠殡殢殣殤殥殦殧殨殩殪殫殬殭殮殯殰殱殲殳殴段殶殷殸殹殺殻殼殽殾殿毀毁毂毃毄毅毆毇毈",
      "毉毊毋毌母毎每毐毑毒毓比毕毖毗毘毙毚毛毜毝毞毟毠毡毢毣毤毥毦毧毨毩毪毫毬毭毮毯毰毱毲毳毴毵毶毷毸毹毺毻毼毽毾毿沀沁沂沃沄沅沆沇沈",
      "沉沊沋沌沍沎沏沐沑沒沓沔沕沖沗沘沙沚沛沜沝沞沟沠没沢沣沤沥沦沧沨沩沪沫沬沭沮沯沰沱沲河沴沵沶沷沸油沺治沼沽沾沿泀況泂泃泄泅泆泇泈",
      "泉泊泋泌泍泎泏泐泑泒泓泔法泖泗泘泙泚泛泜泝泞泟泠泡波泣泤泥泦泧注泩泪泫泬泭泮泯泰泱泲泳泴泵泶泷泸泹泺泻泼泽泾泿涀涁涂涃涄涅涆涇消",
      "涉涊涋涌涍涎涏涐涑涒涓涔涕涖涗涘涙涚涛涜涝涞涟涠涡涢涣涤涥润涧涨涩涪涫涬涭涮涯涰涱液涳涴涵涶涷涸涹涺涻涼涽涾涿淀淁淂淃淄淅淆淇淈",
      "淉淊淋淌淍淎淏淐淑淒淓淔淕淖淗淘淙淚淛淜淝淞淟淠淡淢淣淤淥淦淧淨淩淪淫淬淭淮淯淰深淲淳淴淵淶混淸淹淺添淼淽淾淿満溁溂溃溄溅溆溇溈",
      "溉溊溋溌溍溎溏源溑溒溓溔溕準溗溘溙溚溛溜溝溞溟溠溡溢溣溤溥溦溧溨溩溪溫溬溭溮溯溰溱溲溳溴溵溶溷溸溹溺溻溼溽溾溿滀滁滂滃滄滅滆滇滈",
      "滉滊滋滌滍滎滏滐滑滒滓滔滕滖滗滘滙滚滛滜滝滞滟滠满滢滣滤滥滦滧滨滩滪滫滬滭滮滯滰滱滲滳滴滵滶滷滸滹滺滻滼滽滾滿澀澁澂澃澄澅澆澇澈",
      "澉澊澋澌澍澎澏澐澑澒澓澔澕澖澗澘澙澚澛澜澝澞澟澠澡澢澣澤澥澦澧澨澩澪澫澬澭澮澯澰澱澲澳澴澵澶澷澸澹澺澻澼澽澾澿激濁濂濃濄濅濆濇濈",
      "濉濊濋濌濍濎濏濐濑濒濓濔濕濖濗濘濙濚濛濜濝濞濟濠濡濢濣濤濥濦濧濨濩濪濫濬濭濮濯濰濱濲濳濴濵濶濷濸濹濺濻濼濽濾濿炀炁炂炃炄炅炆炇炈",
      "炉炊炋炌炍炎炏炐炑炒炓炔炕炖炗炘炙炚炛炜炝炞炟炠炡炢炣炤炥炦炧炨炩炪炫炬炭炮炯炰炱炲炳炴炵炶炷炸点為炻炼炽炾炿烀烁烂烃烄烅烆烇烈",
      "烉烊烋烌烍烎烏烐烑烒烓烔烕烖烗烘烙烚烛烜烝烞烟烠烡烢烣烤烥烦烧烨烩烪烫烬热烮烯烰烱烲烳烴烵烶烷烸烹烺烻烼烽烾烿熀熁熂熃熄熅熆熇熈",
      "熉熊熋熌熍熎熏熐熑熒熓熔熕熖熗熘熙熚熛熜熝熞熟熠熡熢熣熤熥熦熧熨熩熪熫熬熭熮熯熰熱熲熳熴熵熶熷熸熹熺熻熼熽熾熿燀燁燂燃燄燅燆燇燈",
      "燉燊燋燌燍燎燏燐燑燒燓燔燕燖燗燘燙燚燛燜燝燞營燠燡燢燣燤燥燦燧燨燩燪燫燬燭燮燯燰燱燲燳燴燵燶燷燸燹燺燻燼燽燾燿犀犁犂犃犄犅犆犇犈",
      "犉犊犋犌犍犎犏犐犑犒犓犔犕犖犗犘犙犚犛犜犝犞犟犠犡犢犣犤犥犦犧犨犩犪犫犬犭犮犯犰犱犲犳犴犵状犷犸犹犺犻犼犽犾犿狀狁狂狃狄狅狆狇狈",
      "狉狊狋狌狍狎狏狐狑狒狓狔狕狖狗狘狙狚狛狜狝狞狟狠狡狢狣狤狥狦狧狨狩狪狫独狭狮狯狰狱狲狳狴狵狶狷狸狹狺狻狼狽狾狿玀玁玂玃玄玅玆率玈",
      "玉玊王玌玍玎玏玐玑玒玓玔玕玖玗玘玙玚玛玜玝玞玟玠玡玢玣玤玥玦玧玨玩玪玫玬玭玮环现玱玲玳玴玵玶玷玸玹玺玻玼玽玾玿珀珁珂珃珄珅珆珇珈",
      "珉珊珋珌珍珎珏珐珑珒珓珔珕珖珗珘珙珚珛珜珝珞珟珠珡珢珣珤珥珦珧珨珩珪珫珬班珮珯珰珱珲珳珴珵珶珷珸珹珺珻珼珽現珿璀璁璂璃璄璅璆璇璈",
      "璉璊璋璌璍璎璏璐璑璒璓璔璕璖璗璘璙璚璛璜璝璞璟璠璡璢璣璤璥璦璧璨璩璪璫璬璭璮璯環璱璲璳璴璵璶璷璸璹璺璻璼璽璾璿瓀瓁瓂瓃瓄瓅瓆瓇瓈",
      "瓉瓊瓋瓌瓍瓎瓏瓐瓑瓒瓓瓔瓕瓖瓗瓘瓙瓚瓛瓜瓝瓞瓟瓠瓡瓢瓣瓤瓥瓦瓧瓨瓩瓪瓫瓬瓭瓮瓯瓰瓱瓲瓳瓴瓵瓶瓷瓸瓹瓺瓻瓼瓽瓾瓿疀疁疂疃疄疅疆疇疈",
      "疉疊疋疌疍疎疏疐疑疒疓疔疕疖疗疘疙疚疛疜疝疞疟疠疡疢疣疤疥疦疧疨疩疪疫疬疭疮疯疰疱疲疳疴疵疶疷疸疹疺疻疼疽疾疿痀痁痂痃痄病痆症痈",
      "痉痊痋痌痍痎痏痐痑痒痓痔痕痖痗痘痙痚痛痜痝痞痟痠痡痢痣痤痥痦痧痨痩痪痫痬痭痮痯痰痱痲痳痴痵痶痷痸痹痺痻痼痽痾痿皀皁皂皃的皅皆皇皈",
      "皉皊皋皌皍皎皏皐皑皒皓皔皕皖皗皘皙皚皛皜皝皞皟皠皡皢皣皤皥皦皧皨皩皪皫皬皭皮皯皰皱皲皳皴皵皶皷皸皹皺皻皼皽皾皿盀盁盂盃盄盅盆盇盈",
      "盉益盋盌盍盎盏盐监盒盓盔盕盖盗盘盙盚盛盜盝盞盟盠盡盢監盤盥盦盧盨盩盪盫盬盭目盯盰盱盲盳直盵盶盷相盹盺盻盼盽盾盿瞀瞁瞂瞃瞄瞅瞆瞇瞈",
      "瞉瞊瞋瞌瞍瞎瞏瞐瞑瞒瞓瞔瞕瞖瞗瞘瞙瞚瞛瞜瞝瞞瞟瞠瞡瞢瞣瞤瞥瞦瞧瞨瞩瞪瞫瞬瞭瞮瞯瞰瞱瞲瞳瞴瞵瞶瞷瞸瞹瞺瞻瞼瞽瞾瞿矀矁矂矃矄矅矆矇矈",
      "矉矊矋矌矍矎矏矐矑矒矓矔矕矖矗矘矙矚矛矜矝矞矟矠矡矢矣矤知矦矧矨矩矪矫矬短矮矯矰矱矲石矴矵矶矷矸矹矺矻矼矽矾矿碀碁碂碃碄碅碆碇碈",
      "碉碊碋碌碍碎碏碐碑碒碓碔碕碖碗碘碙碚碛碜碝碞碟碠碡碢碣碤碥碦碧碨碩碪碫碬碭碮碯碰碱碲碳碴碵碶碷碸碹確碻碼碽碾碿磀磁磂磃磄磅磆磇磈",
      "磉磊磋磌磍磎磏磐磑磒磓磔磕磖磗磘磙磚磛磜磝磞磟磠磡磢磣磤磥磦磧磨磩磪磫磬磭磮磯磰磱磲磳磴磵磶磷磸磹磺磻磼磽磾磿禀禁禂禃禄禅禆禇禈",
      "禉禊禋禌禍禎福禐禑禒禓禔禕禖禗禘禙禚禛禜禝禞禟禠禡禢禣禤禥禦禧禨禩禪禫禬禭禮禯禰禱禲禳禴禵禶禷禸禹禺离禼禽禾禿秀私秂秃秄秅秆秇秈",
      "秉秊秋秌种秎秏秐科秒秓秔秕秖秗秘秙秚秛秜秝秞租秠秡秢秣秤秥秦秧秨秩秪秫秬秭秮积称秱秲秳秴秵秶秷秸秹秺移秼秽秾秿窀突窂窃窄窅窆窇窈",
      "窉窊窋窌窍窎窏窐窑窒窓窔窕窖窗窘窙窚窛窜窝窞窟窠窡窢窣窤窥窦窧窨窩窪窫窬窭窮窯窰窱窲窳窴窵窶窷窸窹窺窻窼窽窾窿竀竁竂竃竄竅竆竇竈",
      "竉竊立竌竍竎竏竐竑竒竓竔竕竖竗竘站竚竛竜竝竞竟章竡竢竣竤童竦竧竨竩竪竫竬竭竮端竰竱竲竳竴竵競竷竸竹竺竻竼竽竾竿简箁箂箃箄箅箆箇箈",
      "箉箊箋箌箍箎箏箐箑箒箓箔箕箖算箘箙箚箛箜箝箞箟箠管箢箣箤箥箦箧箨箩箪箫箬箭箮箯箰箱箲箳箴箵箶箷箸箹箺箻箼箽箾箿節篁篂篃範篅篆篇篈",
      "築篊篋篌篍篎篏篐篑篒篓篔篕篖篗篘篙篚篛篜篝篞篟篠篡篢篣篤篥篦篧篨篩篪篫篬篭篮篯篰篱篲篳篴篵篶篷篸篹篺篻篼篽篾篿粀粁粂粃粄粅粆粇粈",
      "粉粊粋粌粍粎粏粐粑粒粓粔粕粖粗粘粙粚粛粜粝粞粟粠粡粢粣粤粥粦粧粨粩粪粫粬粭粮粯粰粱粲粳粴粵粶粷粸粹粺粻粼粽精粿糀糁糂糃糄糅糆糇糈",
      "糉糊糋糌糍糎糏糐糑糒糓糔糕糖糗糘糙糚糛糜糝糞糟糠糡糢糣糤糥糦糧糨糩糪糫糬糭糮糯糰糱糲糳糴糵糶糷糸糹糺系糼糽糾糿綀綁綂綃綄綅綆綇綈",
      "綉綊綋綌綍綎綏綐綑綒經綔綕綖綗綘継続綛綜綝綞綟綠綡綢綣綤綥綦綧綨綩綪綫綬維綮綯綰綱網綳綴綵綶綷綸綹綺綻綼綽綾綿緀緁緂緃緄緅緆緇緈",
      "緉緊緋緌緍緎総緐緑緒緓緔緕緖緗緘緙線緛緜緝緞緟締緡緢緣緤緥緦緧編緩緪緫緬緭緮緯緰緱緲緳練緵緶緷緸緹緺緻緼緽緾緿纀纁纂纃纄纅纆纇纈",
      "纉纊纋續纍纎纏纐纑纒纓纔纕纖纗纘纙纚纛纜纝纞纟纠纡红纣纤纥约级纨纩纪纫纬纭纮纯纰纱纲纳纴纵纶纷纸纹纺纻纼纽纾线绀绁绂练组绅细织终",
      "绉绊绋绌绍绎经绐绑绒结绔绕绖绗绘给绚绛络绝绞统绠绡绢绣绤绥绦继绨绩绪绫绬续绮绯绰绱绲绳维绵绶绷绸绹绺绻综绽绾绿羀羁羂羃羄羅羆羇羈",
      "羉羊羋羌羍美羏羐羑羒羓羔羕羖羗羘羙羚羛羜羝羞羟羠羡羢羣群羥羦羧羨義羪羫羬羭羮羯羰羱羲羳羴羵羶羷羸羹羺羻羼羽羾羿翀翁翂翃翄翅翆翇翈",
      "翉翊翋翌翍翎翏翐翑習翓翔翕翖翗翘翙翚翛翜翝翞翟翠翡翢翣翤翥翦翧翨翩翪翫翬翭翮翯翰翱翲翳翴翵翶翷翸翹翺翻翼翽翾翿肀肁肂肃肄肅肆肇肈",
      "肉肊肋肌肍肎肏肐肑肒肓肔肕肖肗肘肙肚肛肜肝肞肟肠股肢肣肤肥肦肧肨肩肪肫肬肭肮肯肰肱育肳肴肵肶肷肸肹肺肻肼肽肾肿胀胁胂胃胄胅胆胇胈",
      "胉胊胋背胍胎胏胐胑胒胓胔胕胖胗胘胙胚胛胜胝胞胟胠胡胢胣胤胥胦胧胨胩胪胫胬胭胮胯胰胱胲胳胴胵胶胷胸胹胺胻胼能胾胿膀膁膂膃膄膅膆膇膈",
      "膉膊膋膌膍膎膏膐膑膒膓膔膕膖膗膘膙膚膛膜膝膞膟膠膡膢膣膤膥膦膧膨膩膪膫膬膭膮膯膰膱膲膳膴膵膶膷膸膹膺膻膼膽膾膿臀臁臂臃臄臅臆臇臈",
      "臉臊臋臌臍臎臏臐臑臒臓臔臕臖臗臘臙臚臛臜臝臞臟臠臡臢臣臤臥臦臧臨臩自臫臬臭臮臯臰臱臲至致臵臶臷臸臹臺臻臼臽臾臿芀芁节芃芄芅芆芇芈",
      "芉芊芋芌芍芎芏芐芑芒芓芔芕芖芗芘芙芚芛芜芝芞芟芠芡芢芣芤芥芦芧芨芩芪芫芬芭芮芯芰花芲芳芴芵芶芷芸芹芺芻芼芽芾芿苀苁苂苃苄苅苆苇苈",
      "苉苊苋苌苍苎苏苐苑苒苓苔苕苖苗苘苙苚苛苜苝苞苟苠苡苢苣苤若苦苧苨苩苪苫苬苭苮苯苰英苲苳苴苵苶苷苸苹苺苻苼苽苾苿莀莁莂莃莄莅莆莇莈",
      "莉莊莋莌莍莎莏莐莑莒莓莔莕莖莗莘莙莚莛莜莝莞莟莠莡莢莣莤莥莦莧莨莩莪莫莬莭莮莯莰莱莲莳莴莵莶获莸莹莺莻莼莽莾莿菀菁菂菃菄菅菆菇菈",
      "菉菊菋菌菍菎菏菐菑菒菓菔菕菖菗菘菙菚菛菜菝菞菟菠菡菢菣菤菥菦菧菨菩菪菫菬菭菮華菰菱菲菳菴菵菶菷菸菹菺菻菼菽菾菿蒀蒁蒂蒃蒄蒅蒆蒇蒈",
      "蒉蒊蒋蒌蒍蒎蒏蒐蒑蒒蒓蒔蒕蒖蒗蒘蒙蒚蒛蒜蒝蒞蒟蒠蒡蒢蒣蒤蒥蒦蒧蒨蒩蒪蒫蒬蒭蒮蒯蒰蒱蒲蒳蒴蒵蒶蒷蒸蒹蒺蒻蒼蒽蒾蒿蓀蓁蓂蓃蓄蓅蓆蓇蓈",
      "蓉蓊蓋蓌蓍蓎蓏蓐蓑蓒蓓蓔蓕蓖蓗蓘蓙蓚蓛蓜蓝蓞蓟蓠蓡蓢蓣蓤蓥蓦蓧蓨蓩蓪蓫蓬蓭蓮蓯蓰蓱蓲蓳蓴蓵蓶蓷蓸蓹蓺蓻蓼蓽蓾蓿薀薁薂薃薄薅薆薇薈",
      "薉薊薋薌薍薎薏薐薑薒薓薔薕薖薗薘薙薚薛薜薝薞薟薠薡薢薣薤薥薦薧薨薩薪薫薬薭薮薯薰薱薲薳薴薵薶薷薸薹薺薻薼薽薾薿藀藁藂藃藄藅藆藇藈",
      "藉藊藋藌藍藎藏藐藑藒藓藔藕藖藗藘藙藚藛藜藝藞藟藠藡藢藣藤藥藦藧藨藩藪藫藬藭藮藯藰藱藲藳藴藵藶藷藸藹藺藻藼藽藾藿蚀蚁蚂蚃蚄蚅蚆蚇蚈",
      "蚉蚊蚋蚌蚍蚎蚏蚐蚑蚒蚓蚔蚕蚖蚗蚘蚙蚚蚛蚜蚝蚞蚟蚠蚡蚢蚣蚤蚥蚦蚧蚨蚩蚪蚫蚬蚭蚮蚯蚰蚱蚲蚳蚴蚵蚶蚷蚸蚹蚺蚻蚼蚽蚾蚿蛀蛁蛂蛃蛄蛅蛆蛇蛈",
      "蛉蛊蛋蛌蛍蛎蛏蛐蛑蛒蛓蛔蛕蛖蛗蛘蛙蛚蛛蛜蛝蛞蛟蛠蛡蛢蛣蛤蛥蛦蛧蛨蛩蛪蛫蛬蛭蛮蛯蛰蛱蛲蛳蛴蛵蛶蛷蛸蛹蛺蛻蛼蛽蛾蛿螀螁螂螃螄螅螆螇螈",
      "螉螊螋螌融螎螏螐螑螒螓螔螕螖螗螘螙螚螛螜螝螞螟螠螡螢螣螤螥螦螧螨螩螪螫螬螭螮螯螰螱螲螳螴螵螶螷螸螹螺螻螼螽螾螿蟀蟁蟂蟃蟄蟅蟆蟇蟈",
      "蟉蟊蟋蟌蟍蟎蟏蟐蟑蟒蟓蟔蟕蟖蟗蟘蟙蟚蟛蟜蟝蟞蟟蟠蟡蟢蟣蟤蟥蟦蟧蟨蟩蟪蟫蟬蟭蟮蟯蟰蟱蟲蟳蟴蟵蟶蟷蟸蟹蟺蟻蟼蟽蟾蟿袀袁袂袃袄袅袆袇袈",
      "袉袊袋袌袍袎袏袐袑袒袓袔袕袖袗袘袙袚袛袜袝袞袟袠袡袢袣袤袥袦袧袨袩袪被袬袭袮袯袰袱袲袳袴袵袶袷袸袹袺袻袼袽袾袿裀裁裂裃裄装裆裇裈",
      "裉裊裋裌裍裎裏裐裑裒裓裔裕裖裗裘裙裚裛補裝裞裟裠裡裢裣裤裥裦裧裨裩裪裫裬裭裮裯裰裱裲裳裴裵裶裷裸裹裺裻裼製裾裿覀要覂覃覄覅覆覇覈",
      "覉覊見覌覍覎規覐覑覒覓覔覕視覗覘覙覚覛覜覝覞覟覠覡覢覣覤覥覦覧覨覩親覫覬覭覮覯覰覱覲観覴覵覶覷覸覹覺覻覼覽覾覿觀见观觃规觅视觇览",
      "觉觊觋觌觍觎觏觐觑角觓觔觕觖觗觘觙觚觛觜觝觞觟觠觡觢解觤觥触觧觨觩觪觫觬觭觮觯觰觱觲觳觴觵觶觷觸觹觺觻觼觽觾觿誀誁誂誃誄誅誆誇誈",
      "誉誊誋誌認誎誏誐誑誒誓誔誕誖誗誘誙誚誛誜誝語誟誠誡誢誣誤誥誦誧誨誩說誫説読誮誯誰誱課誳誴誵誶誷誸誹誺誻誼誽誾調諀諁諂諃諄諅諆談諈",
      "諉諊請諌諍諎諏諐諑諒諓諔諕論諗諘諙諚諛諜諝諞諟諠諡諢諣諤諥諦諧諨諩諪諫諬諭諮諯諰諱諲諳諴諵諶諷諸諹諺諻諼諽諾諿讀讁讂讃讄讅讆讇讈",
      "讉變讋讌讍讎讏讐讑讒讓讔讕讖讗讘讙讚讛讜讝讞讟讠计订讣认讥讦讧讨让讪讫讬训议讯记讱讲讳讴讵讶讷许讹论讻讼讽设访诀证诂诃评诅识诇诈",
      "诉诊诋诌词诎诏诐译诒诓诔试诖诗诘诙诚诛诜话诞诟诠诡询诣诤该详诧诨诩诪诫诬语诮误诰诱诲诳说诵诶请诸诹诺读诼诽课诿貀貁貂貃貄貅貆貇貈",
      "貉貊貋貌貍貎貏貐貑貒貓貔貕貖貗貘貙貚貛貜貝貞貟負財貢貣貤貥貦貧貨販貪貫責貭貮貯貰貱貲貳貴貵貶買貸貹貺費貼貽貾貿賀賁賂賃賄賅賆資賈",
      "賉賊賋賌賍賎賏賐賑賒賓賔賕賖賗賘賙賚賛賜賝賞賟賠賡賢賣賤賥賦賧賨賩質賫賬賭賮賯賰賱賲賳賴賵賶賷賸賹賺賻購賽賾賿趀趁趂趃趄超趆趇趈",
      "趉越趋趌趍趎趏趐趑趒趓趔趕趖趗趘趙趚趛趜趝趞趟趠趡趢趣趤趥趦趧趨趩趪趫趬趭趮趯趰趱趲足趴趵趶趷趸趹趺趻趼趽趾趿跀跁跂跃跄跅跆跇跈",
      "跉跊跋跌跍跎跏跐跑跒跓跔跕跖跗跘跙跚跛跜距跞跟跠跡跢跣跤跥跦跧跨跩跪跫跬跭跮路跰跱跲跳跴践跶跷跸跹跺跻跼跽跾跿躀躁躂躃躄躅躆躇躈",
      "躉躊躋躌躍躎躏躐躑躒躓躔躕躖躗躘躙躚躛躜躝躞躟躠躡躢躣躤躥躦躧躨躩躪身躬躭躮躯躰躱躲躳躴躵躶躷躸躹躺躻躼躽躾躿軀軁軂軃軄軅軆軇軈",
      "軉車軋軌軍軎軏軐軑軒軓軔軕軖軗軘軙軚軛軜軝軞軟軠軡転軣軤軥軦軧軨軩軪軫軬軭軮軯軰軱軲軳軴軵軶軷軸軹軺軻軼軽軾軿辀辁辂较辄辅辆辇辈",
      "辉辊辋辌辍辎辏辐辑辒输辔辕辖辗辘辙辚辛辜辝辞辟辠辡辢辣辤辥辦辧辨辩辪辫辬辭辮辯辰辱農辳辴辵辶辷辸边辺辻込辽达辿迀迁迂迃迄迅迆过迈",
      "迉迊迋迌迍迎迏运近迒迓返迕迖迗还这迚进远违连迟迠迡迢迣迤迥迦迧迨迩迪迫迬迭迮迯述迱迲迳迴迵迶迷迸迹迺迻迼追迾迿邀邁邂邃還邅邆邇邈",
      "邉邊邋邌邍邎邏邐邑邒邓邔邕邖邗邘邙邚邛邜邝邞邟邠邡邢那邤邥邦邧邨邩邪邫邬邭邮邯邰邱邲邳邴邵邶邷邸邹邺邻邼邽邾邿郀郁郂郃郄郅郆郇郈",
      "郉郊郋郌郍郎郏郐郑郒郓郔郕郖郗郘郙郚郛郜郝郞郟郠郡郢郣郤郥郦郧部郩郪郫郬郭郮郯郰郱郲郳郴郵郶郷郸郹郺郻郼都郾郿醀醁醂醃醄醅醆醇醈",
      "醉醊醋醌醍醎醏醐醑醒醓醔醕醖醗醘醙醚醛醜醝醞醟醠醡醢醣醤醥醦醧醨醩醪醫醬醭醮醯醰醱醲醳醴醵醶醷醸醹醺醻醼醽醾醿釀釁釂釃釄釅釆采釈",
      "釉释釋里重野量釐金釒釓釔釕釖釗釘釙釚釛釜針釞釟釠釡釢釣釤釥釦釧釨釩釪釫釬釭釮釯釰釱釲釳釴釵釶釷釸釹釺釻釼釽釾釿銀銁銂銃銄銅銆銇銈",
      "銉銊銋銌銍銎銏銐銑銒銓銔銕銖銗銘銙銚銛銜銝銞銟銠銡銢銣銤銥銦銧銨銩銪銫銬銭銮銯銰銱銲銳銴銵銶銷銸銹銺銻銼銽銾銿鋀鋁鋂鋃鋄鋅鋆鋇鋈",
      "鋉鋊鋋鋌鋍鋎鋏鋐鋑鋒鋓鋔鋕鋖鋗鋘鋙鋚鋛鋜鋝鋞鋟鋠鋡鋢鋣鋤鋥鋦鋧鋨鋩鋪鋫鋬鋭鋮鋯鋰鋱鋲鋳鋴鋵鋶鋷鋸鋹鋺鋻鋼鋽鋾鋿鎀鎁鎂鎃鎄鎅鎆鎇鎈",
      "鎉鎊鎋鎌鎍鎎鎏鎐鎑鎒鎓鎔鎕鎖鎗鎘鎙鎚鎛鎜鎝鎞鎟鎠鎡鎢鎣鎤鎥鎦鎧鎨鎩鎪鎫鎬鎭鎮鎯鎰鎱鎲鎳鎴鎵鎶鎷鎸鎹鎺鎻鎼鎽鎾鎿鏀鏁鏂鏃鏄鏅鏆鏇鏈",
      "鏉鏊鏋鏌鏍鏎鏏鏐鏑鏒鏓鏔鏕鏖鏗鏘鏙鏚鏛鏜鏝鏞鏟鏠鏡鏢鏣鏤鏥鏦鏧鏨鏩鏪鏫鏬鏭鏮鏯鏰鏱鏲鏳鏴鏵鏶鏷鏸鏹鏺鏻鏼鏽鏾鏿钀钁钂钃钄钅钆钇针",
      "钉钊钋钌钍钎钏钐钑钒钓钔钕钖钗钘钙钚钛钜钝钞钟钠钡钢钣钤钥钦钧钨钩钪钫钬钭钮钯钰钱钲钳钴钵钶钷钸钹钺钻钼钽钾钿铀铁铂铃铄铅铆铇铈",
      "铉铊铋铌铍铎铏铐铑铒铓铔铕铖铗铘铙铚铛铜铝铞铟铠铡铢铣铤铥铦铧铨铩铪铫铬铭铮铯铰铱铲铳铴铵银铷铸铹铺铻铼铽链铿門閁閂閃閄閅閆閇閈",
      "閉閊開閌閍閎閏閐閑閒間閔閕閖閗閘閙閚閛閜閝閞閟閠閡関閣閤閥閦閧閨閩閪閫閬閭閮閯閰閱閲閳閴閵閶閷閸閹閺閻閼閽閾閿闀闁闂闃闄闅闆闇闈",
      "闉闊闋闌闍闎闏闐闑闒闓闔闕闖闗闘闙闚闛關闝闞闟闠闡闢闣闤闥闦闧门闩闪闫闬闭问闯闰闱闲闳间闵闶闷闸闹闺闻闼闽闾闿隀隁隂隃隄隅隆隇隈",
      "隉隊隋隌隍階随隐隑隒隓隔隕隖隗隘隙隚際障隝隞隟隠隡隢隣隤隥隦隧隨隩險隫隬隭隮隯隰隱隲隳隴隵隶隷隸隹隺隻隼隽难隿雀雁雂雃雄雅集雇雈",
      "雉雊雋雌雍雎雏雐雑雒雓雔雕雖雗雘雙雚雛雜雝雞雟雠雡離難雤雥雦雧雨雩雪雫雬雭雮雯雰雱雲雳雴雵零雷雸雹雺電雼雽雾雿鞀鞁鞂鞃鞄鞅鞆鞇鞈",
      "鞉鞊鞋鞌鞍鞎鞏鞐鞑鞒鞓鞔鞕鞖鞗鞘鞙鞚鞛鞜鞝鞞鞟鞠鞡鞢鞣鞤鞥鞦鞧鞨鞩鞪鞫鞬鞭鞮鞯鞰鞱鞲鞳鞴鞵鞶鞷鞸鞹鞺鞻鞼鞽鞾鞿韀韁韂韃韄韅韆韇韈",
      "韉韊韋韌韍韎韏韐韑韒韓韔韕韖韗韘韙韚韛韜韝韞韟韠韡韢韣韤韥韦韧韨韩韪韫韬韭韮韯韰韱韲音韴韵韶韷韸韹韺韻韼韽韾響颀颁颂颃预颅领颇颈",
      "颉颊颋颌颍颎颏颐频颒颓颔颕颖颗题颙颚颛颜额颞颟颠颡颢颣颤颥颦颧風颩颪颫颬颭颮颯颰颱颲颳颴颵颶颷颸颹颺颻颼颽颾颿飀飁飂飃飄飅飆飇飈",
      "飉飊飋飌飍风飏飐飑飒飓飔飕飖飗飘飙飚飛飜飝飞食飠飡飢飣飤飥飦飧飨飩飪飫飬飭飮飯飰飱飲飳飴飵飶飷飸飹飺飻飼飽飾飿馀馁馂馃馄馅馆馇馈",
      "馉馊馋馌馍馎馏馐馑馒馓馔馕首馗馘香馚馛馜馝馞馟馠馡馢馣馤馥馦馧馨馩馪馫馬馭馮馯馰馱馲馳馴馵馶馷馸馹馺馻馼馽馾馿駀駁駂駃駄駅駆駇駈",
      "駉駊駋駌駍駎駏駐駑駒駓駔駕駖駗駘駙駚駛駜駝駞駟駠駡駢駣駤駥駦駧駨駩駪駫駬駭駮駯駰駱駲駳駴駵駶駷駸駹駺駻駼駽駾駿骀骁骂骃骄骅骆骇骈",
      "骉骊骋验骍骎骏骐骑骒骓骔骕骖骗骘骙骚骛骜骝骞骟骠骡骢骣骤骥骦骧骨骩骪骫骬骭骮骯骰骱骲骳骴骵骶骷骸骹骺骻骼骽骾骿髀髁髂髃髄髅髆髇髈",
      "髉髊髋髌髍髎髏髐髑髒髓體髕髖髗高髙髚髛髜髝髞髟髠髡髢髣髤髥髦髧髨髩髪髫髬髭髮髯髰髱髲髳髴髵髶髷髸髹髺髻髼髽髾髿鮀鮁鮂鮃鮄鮅鮆鮇鮈",
      "鮉鮊鮋鮌鮍鮎鮏鮐鮑鮒鮓鮔鮕鮖鮗鮘鮙鮚鮛鮜鮝鮞鮟鮠鮡鮢鮣鮤鮥鮦鮧鮨鮩鮪鮫鮬鮭鮮鮯鮰鮱鮲鮳鮴鮵鮶鮷鮸鮹鮺鮻鮼鮽鮾鮿鯀鯁鯂鯃鯄鯅鯆鯇鯈",
      "鯉鯊鯋鯌鯍鯎鯏鯐鯑鯒鯓鯔鯕鯖鯗鯘鯙鯚鯛鯜鯝鯞鯟鯠鯡鯢鯣鯤鯥鯦鯧鯨鯩鯪鯫鯬鯭鯮鯯鯰鯱鯲鯳鯴鯵鯶鯷鯸鯹鯺鯻鯼鯽鯾鯿鲀鲁鲂鲃鲄鲅鲆鲇鲈",
      "鲉鲊鲋鲌鲍鲎鲏鲐鲑鲒鲓鲔鲕鲖鲗鲘鲙鲚鲛鲜鲝鲞鲟鲠鲡鲢鲣鲤鲥鲦鲧鲨鲩鲪鲫鲬鲭鲮鲯鲰鲱鲲鲳鲴鲵鲶鲷鲸鲹鲺鲻鲼鲽鲾鲿鳀鳁鳂鳃鳄鳅鳆鳇鳈",
      "鳉鳊鳋鳌鳍鳎鳏鳐鳑鳒鳓鳔鳕鳖鳗鳘鳙鳚鳛鳜鳝鳞鳟鳠鳡鳢鳣鳤鳥鳦鳧鳨鳩鳪鳫鳬鳭鳮鳯鳰鳱鳲鳳鳴鳵鳶鳷鳸鳹鳺鳻鳼鳽鳾鳿鶀鶁鶂鶃鶄鶅鶆鶇鶈",
      "鶉鶊鶋鶌鶍鶎鶏鶐鶑鶒鶓鶔鶕鶖鶗鶘鶙鶚鶛鶜鶝鶞鶟鶠鶡鶢鶣鶤鶥鶦鶧鶨鶩鶪鶫鶬鶭鶮鶯鶰鶱鶲鶳鶴鶵鶶鶷鶸鶹鶺鶻鶼鶽鶾鶿鷀鷁鷂鷃鷄鷅鷆鷇鷈",
      "鷉鷊鷋鷌鷍鷎鷏鷐鷑鷒鷓鷔鷕鷖鷗鷘鷙鷚鷛鷜鷝鷞鷟鷠鷡鷢鷣鷤鷥鷦鷧鷨鷩鷪鷫鷬鷭鷮鷯鷰鷱鷲鷳鷴鷵鷶鷷鷸鷹鷺鷻鷼鷽鷾鷿麀麁麂麃麄麅麆麇麈",
      "麉麊麋麌麍麎麏麐麑麒麓麔麕麖麗麘麙麚麛麜麝麞麟麠麡麢麣麤麥麦麧麨麩麪麫麬麭麮麯麰麱麲麳麴麵麶麷麸麹麺麻麼麽麾麿黀黁黂黃黄黅黆黇黈",
      "黉黊黋黌黍黎黏黐黑黒黓黔黕黖黗默黙黚黛黜黝點黟黠黡黢黣黤黥黦黧黨黩黪黫黬黭黮黯黰黱黲黳黴黵黶黷黸黹黺黻黼黽黾黿龀龁龂龃龄龅龆龇龈",
      "龉龊龋龌龍龎龏龐龑龒龓龔龕龖龗龘龙龚龛龜龝龞龟龠龡龢龣龤龥龦龧龨龩龪龫龬龭龮龯龰龱龲龳龴龵龶龷龸龹龺龻龼龽龾龿鿀鿁鿂鿃鿄鿅鿆鿇鿈",
      "鿉鿊鿋鿌鿍鿎鿏鿐鿑鿒鿓鿔鿕鿖鿗鿘鿙鿚鿛鿜鿝鿞鿟鿠鿡鿢鿣鿤鿥鿦鿧鿨鿩鿪鿫鿬鿭鿮鿯鿰鿱鿲鿳鿴鿵鿶鿷鿸鿹鿺鿻鿼鿽鿾鿿ꂀꂁꂂꂃꂄꂅꂆꂇꂈ",
      "ꂉꂊꂋꂌꂍꂎꂏꂐꂑꂒꂓꂔꂕꂖꂗꂘꂙꂚꂛꂜꂝꂞꂟꂠꂡꂢꂣꂤꂥꂦꂧꂨꂩꂪꂫꂬꂭꂮꂯꂰꂱꂲꂳꂴꂵꂶꂷꂸꂹꂺꂻꂼꂽꂾꂿꃀꃁꃂꃃꃄꃅꃆꃇꃈ",
      "ꃉꃊꃋꃌꃍꃎꃏꃐꃑꃒꃓꃔꃕꃖꃗꃘꃙꃚꃛꃜꃝꃞꃟꃠꃡꃢꃣꃤꃥꃦꃧꃨꃩꃪꃫꃬꃭꃮꃯꃰꃱꃲꃳꃴꃵꃶꃷꃸꃹꃺꃻꃼꃽꃾꃿꆀꆁꆂꆃꆄꆅꆆꆇꆈ",
      "ꆉꆊꆋꆌꆍꆎꆏꆐꆑꆒꆓꆔꆕꆖꆗꆘꆙꆚꆛꆜꆝꆞꆟꆠꆡꆢꆣꆤꆥꆦꆧꆨꆩꆪꆫꆬꆭꆮꆯꆰꆱꆲꆳꆴꆵꆶꆷꆸꆹꆺꆻꆼꆽꆾꆿꇀꇁꇂꇃꇄꇅꇆꇇꇈ",
      "ꇉꇊꇋꇌꇍꇎꇏꇐꇑꇒꇓꇔꇕꇖꇗꇘꇙꇚꇛꇜꇝꇞꇟꇠꇡꇢꇣꇤꇥꇦꇧꇨꇩꇪꇫꇬꇭꇮꇯꇰꇱꇲꇳꇴꇵꇶꇷꇸꇹꇺꇻꇼꇽꇾꇿꊀꊁꊂꊃꊄꊅꊆꊇꊈ",
      "ꊉꊊꊋꊌꊍꊎꊏꊐꊑꊒꊓꊔꊕꊖꊗꊘꊙꊚꊛꊜꊝꊞꊟꊠꊡꊢꊣꊤꊥꊦꊧꊨꊩꊪꊫꊬꊭꊮꊯꊰꊱꊲꊳꊴꊵꊶꊷꊸꊹꊺꊻꊼꊽꊾꊿꋀꋁꋂꋃꋄꋅꋆꋇꋈ",
      "ꋉꋊꋋꋌꋍꋎꋏꋐꋑꋒꋓꋔꋕꋖꋗꋘꋙꋚꋛꋜꋝꋞꋟꋠꋡꋢꋣꋤꋥꋦꋧꋨꋩꋪꋫꋬꋭꋮꋯꋰꋱꋲꋳꋴꋵꋶꋷꋸꋹꋺꋻꋼꋽꋾꋿꎀꎁꎂꎃꎄꎅꎆꎇꎈ",
      "ꎉꎊꎋꎌꎍꎎꎏꎐꎑꎒꎓꎔꎕꎖꎗꎘꎙꎚꎛꎜꎝꎞꎟꎠꎡꎢꎣꎤꎥꎦꎧꎨꎩꎪꎫꎬꎭꎮꎯꎰꎱꎲꎳꎴꎵꎶꎷꎸꎹꎺꎻꎼꎽꎾꎿꏀꏁꏂꏃꏄꏅꏆꏇꏈ",
      "ꏉꏊꏋꏌꏍꏎꏏꏐꏑꏒꏓꏔꏕꏖꏗꏘꏙꏚꏛꏜꏝꏞꏟꏠꏡꏢꏣꏤꏥꏦꏧꏨꏩꏪꏫꏬꏭꏮꏯꏰꏱꏲꏳꏴꏵꏶꏷꏸꏹꏺꏻꏼꏽꏾꏿꒀꒁꒂꒃꒄꒅꒆꒇꒈ",
      "ꒉꒊꒋꒌꓐꓑꓒꓓꓔꓕꓖꓗꓘꓙꓚꓛꓜꓝꓞꓟꓠꓡꓢꓣꓤꓥꓦꓧꓨꓩꓪꓫꓬꓭꓮꓯꓰꓱꓲꓳꓴꓵꓶꓷꓸꓹꓺꓻꓼꓽꖀꖁꖂꖃꖄꖅꖆꖇꖈꖉꖊꖋꖌꖍ",
      "ꖎꖏꖐꖑꖒꖓꖔꖕꖖꖗꖘꖙꖚꖛꖜꖝꖞꖟꖠꖡꖢꖣꖤꖥꖦꖧꖨꖩꖪꖫꖬꖭꖮꖯꖰꖱꖲꖳꖴꖵꖶꖷꖸꖹꖺꖻꖼꖽꖾꖿꗀꗁꗂꗃꗄꗅꗆꗇꗈꗉꗊꗋꗌꗍ",
      "ꗎꗏꗐꗑꗒꗓꗔꗕꗖꗗꗘꗙꗚꗛꗜꗝꗞꗟꗠꗡꗢꗣꗤꗥꗦꗧꗨꗩꗪꗫꗬꗭꗮꗯꗰꗱꗲꗳꗴꗵꗶꗷꗸꗹꗺꗻꗼꗽꗾꗿꚀꚁꚂꚃꚄꚅꚆꚇꚈꚉꚊꚋꚌꚍ",
      "ꚎꚏꚐꚑꚒꚓꚔꚕꚖꚗꚘꚙꚚꚛꚜꚝꚠꚡꚢꚣꚤꚥꚦꚧꚨꚩꚪꚫꚬꚭꚮꚯꚰꚱꚲꚳꚴꚵꚶꚷꚸꚹꚺꚻꚼꚽꚾꚿꛀꛁꛂꛃꛄꛅꛆꛇꛈꛉꛊꛋꛌꛍꛎꛏ",
      "ꛐꛑꛒꛓꛔꛕꛖꛗꛘꛙꛚꛛꛜꛝꛞꛟꛠꛡꛢꛣꛤꛥꛦꛧꛨꛩꛪꛫꛬꛭꛮꛯꞀꞁꞂꞃꞄꞅꞆꞇꞈꞋꞌꞍꞎꞏꞐꞑꞒꞓꞔꞕꞖꞗꞘꞙꞚꞛꞜꞝꞞꞟꞠꞡ",
      "ꞢꞣꞤꞥꞦꞧꞨꞩꞪꞫꞬꞭꞮꞯꞰꞱꞲꞳꞴꞵꞶꞷꞸꞹꞺꞻꞼꞽꞾꞿꟀꟁꟂꟃꟄꟅꟆꟇꟈꟉꟊꟐꟑꟓꟕꟖꟗꟘꟙꟲꟳꟴꟵꟶꟷꟸꟹꟺꟻꟼꟽꟾꟿꢂ",
      "ꢃꢄꢅꢆꢇꢈꢉꢊꢋꢌꢍꢎꢏꢐꢑꢒꢓꢔꢕꢖꢗꢘꢙꢚꢛꢜꢝꢞꢟꢠꢡꢢꢣꢤꢥꢦꢧꢨꢩꢪꢫꢬꢭꢮꢯꢰꢱꢲꢳ꣐꣑꣒꣓꣔꣕꣖꣗꣘꣙ꣲꣳꣴꣵꣶ",
      "ꣷꣻꣽꣾꦄꦅꦆꦇꦈꦉꦊꦋꦌꦍꦎꦏꦐꦑꦒꦓꦔꦕꦖꦗꦘꦙꦚꦛꦜꦝꦞꦟꦠꦡꦢꦣꦤꦥꦦꦧꦨꦩꦪꦫꦬꦭꦮꦯꦰꦱꦲꧏ꧐꧑꧒꧓꧔꧕꧖꧗꧘꧙ꧠꧡ",
      "ꧢꧣꧤꧦꧧꧨꧩꧪꧫꧬꧭꧮꧯ꧰꧱꧲꧳꧴꧵꧶꧷꧸꧹ꧺꧻꧼꧽꧾꪀꪁꪂꪃꪄꪅꪆꪇꪈꪉꪊꪋꪌꪍꪎꪏꪐꪑꪒꪓꪔꪕꪖꪗꪘꪙꪚꪛꪜꪝꪞꪟꪠꪡꪢꪣ",
      "ꪤꪥꪦꪧꪨꪩꪪꪫꪬꪭꪮꪯꪱꪵꪶꪹꪺꪻꪼꪽꫀꫂꫛꫜꫝꫠꫡꫢꫣꫤꫥꫦꫧꫨꫩꫪꫲꫳꫴꮀꮁꮂꮃꮄꮅꮆꮇꮈꮉꮊꮋꮌꮍꮎꮏꮐꮑꮒꮓꮔꮕꮖꮗꮘ",
      "ꮙꮚꮛꮜꮝꮞꮟꮠꮡꮢꮣꮤꮥꮦꮧꮨꮩꮪꮫꮬꮭꮮꮯꮰꮱꮲꮳꮴꮵꮶꮷꮸꮹꮺꮻꮼꮽꮾꮿꯀꯁꯂꯃꯄꯅꯆꯇꯈꯉꯊꯋꯌꯍꯎꯏꯐꯑꯒꯓꯔꯕꯖꯗꯘ",
      "ꯙꯚꯛꯜꯝꯞꯟꯠꯡꯢ꯰꯱꯲꯳꯴꯵꯶꯷꯸꯹검겁겂것겄겅겆겇겈겉겊겋게겍겎겏겐겑겒겓겔겕겖겗겘겙겚겛겜겝겞겟겠겡겢겣겤겥겦겧겨격겪겫",
      "견겭겮겯결겱겲겳겴겵겶겷겸겹겺겻겼경겾겿곀곁곂곃계곅곆곇곈곉곊곋곌곍곎곏곐곑곒곓곔곕곖곗곘곙곚곛곜곝곞곟고곡곢곣곤곥곦곧골곩곪곫",
      "곬곭곮곯곰곱곲곳곴공곶곷곸곹곺곻과곽곾곿궀궁궂궃궄궅궆궇궈궉궊궋권궍궎궏궐궑궒궓궔궕궖궗궘궙궚궛궜궝궞궟궠궡궢궣궤궥궦궧궨궩궪궫",
      "궬궭궮궯궰궱궲궳궴궵궶궷궸궹궺궻궼궽궾궿귀귁귂귃귄귅귆귇귈귉귊귋귌귍귎귏귐귑귒귓귔귕귖귗귘귙귚귛규귝귞귟균귡귢귣귤귥귦귧귨귩귪귫",
      "귬귭귮귯귰귱귲귳귴귵귶귷그극귺귻근귽귾귿꺀꺁꺂꺃꺄꺅꺆꺇꺈꺉꺊꺋꺌꺍꺎꺏꺐꺑꺒꺓꺔꺕꺖꺗꺘꺙꺚꺛꺜꺝꺞꺟꺠꺡꺢꺣꺤꺥꺦꺧꺨꺩꺪꺫",
      "꺬꺭꺮꺯꺰꺱꺲꺳꺴꺵꺶꺷꺸꺹꺺꺻꺼꺽꺾꺿껀껁껂껃껄껅껆껇껈껉껊껋껌껍껎껏껐껑껒껓껔껕껖껗께껙껚껛껜껝껞껟껠껡껢껣껤껥껦껧껨껩껪껫",
      "껬껭껮껯껰껱껲껳껴껵껶껷껸껹껺껻껼껽껾껿꾀꾁꾂꾃꾄꾅꾆꾇꾈꾉꾊꾋꾌꾍꾎꾏꾐꾑꾒꾓꾔꾕꾖꾗꾘꾙꾚꾛꾜꾝꾞꾟꾠꾡꾢꾣꾤꾥꾦꾧꾨꾩꾪꾫",
      "꾬꾭꾮꾯꾰꾱꾲꾳꾴꾵꾶꾷꾸꾹꾺꾻꾼꾽꾾꾿꿀꿁꿂꿃꿄꿅꿆꿇꿈꿉꿊꿋꿌꿍꿎꿏꿐꿑꿒꿓꿔꿕꿖꿗꿘꿙꿚꿛꿜꿝꿞꿟꿠꿡꿢꿣꿤꿥꿦꿧꿨꿩꿪꿫",
      "꿬꿭꿮꿯꿰꿱꿲꿳꿴꿵꿶꿷꿸꿹꿺꿻꿼꿽꿾꿿낀낁낂낃낄낅낆낇낈낉낊낋낌낍낎낏낐낑낒낓낔낕낖낗나낙낚낛난낝낞낟날낡낢낣낤낥낦낧남납낪낫",
      "났낭낮낯낰낱낲낳내낵낶낷낸낹낺낻낼낽낾낿냀냁냂냃냄냅냆냇냈냉냊냋냌냍냎냏냐냑냒냓냔냕냖냗냘냙냚냛냜냝냞냟냠냡냢냣냤냥냦냧냨냩냪냫",
      "냬냭냮냯냰냱냲냳냴냵냶냷냸냹냺냻냼냽냾냿놀놁놂놃놄놅놆놇놈놉놊놋놌농놎놏놐놑높놓놔놕놖놗놘놙놚놛놜놝놞놟놠놡놢놣놤놥놦놧놨놩놪놫",
      "놬놭놮놯놰놱놲놳놴놵놶놷놸놹놺놻놼놽놾놿뇀뇁뇂뇃뇄뇅뇆뇇뇈뇉뇊뇋뇌뇍뇎뇏뇐뇑뇒뇓뇔뇕뇖뇗뇘뇙뇚뇛뇜뇝뇞뇟뇠뇡뇢뇣뇤뇥뇦뇧뇨뇩뇪뇫",
      "뇬뇭뇮뇯뇰뇱뇲뇳뇴뇵뇶뇷뇸뇹뇺뇻뇼뇽뇾뇿늀늁늂늃늄늅늆늇늈늉늊늋늌늍늎늏느늑늒늓는늕늖늗늘늙늚늛늜늝늞늟늠늡늢늣늤능늦늧늨늩늪늫",
      "늬늭늮늯늰늱늲늳늴늵늶늷늸늹늺늻늼늽늾늿닀닁닂닃닄닅닆닇니닉닊닋닌닍닎닏닐닑닒닓닔닕닖닗님닙닚닛닜닝닞닟닠닡닢닣다닥닦닧단닩닪닫",
      "달닭닮닯닰닱닲닳담답닶닷닸당닺닻닼닽닾닿뎀뎁뎂뎃뎄뎅뎆뎇뎈뎉뎊뎋뎌뎍뎎뎏뎐뎑뎒뎓뎔뎕뎖뎗뎘뎙뎚뎛뎜뎝뎞뎟뎠뎡뎢뎣뎤뎥뎦뎧뎨뎩뎪뎫",
      "뎬뎭뎮뎯뎰뎱뎲뎳뎴뎵뎶뎷뎸뎹뎺뎻뎼뎽뎾뎿돀돁돂돃도독돆돇돈돉돊돋돌돍돎돏돐돑돒돓돔돕돖돗돘동돚돛돜돝돞돟돠돡돢돣돤돥돦돧돨돩돪돫",
      "돬돭돮돯돰돱돲돳돴돵돶돷돸돹돺돻돼돽돾돿뒀뒁뒂뒃뒄뒅뒆뒇뒈뒉뒊뒋뒌뒍뒎뒏뒐뒑뒒뒓뒔뒕뒖뒗뒘뒙뒚뒛뒜뒝뒞뒟뒠뒡뒢뒣뒤뒥뒦뒧뒨뒩뒪뒫",
      "뒬뒭뒮뒯뒰뒱뒲뒳뒴뒵뒶뒷뒸뒹뒺뒻뒼뒽뒾뒿듀듁듂듃듄듅듆듇듈듉듊듋듌듍듎듏듐듑듒듓듔듕듖듗듘듙듚듛드득듞듟든듡듢듣들듥듦듧듨듩듪듫",
      "듬듭듮듯듰등듲듳듴듵듶듷듸듹듺듻듼듽듾듿떀떁떂떃떄떅떆떇떈떉떊떋떌떍떎떏떐떑떒떓떔떕떖떗떘떙떚떛떜떝떞떟떠떡떢떣떤떥떦떧떨떩떪떫",
      "떬떭떮떯떰떱떲떳떴떵떶떷떸떹떺떻떼떽떾떿뗀뗁뗂뗃뗄뗅뗆뗇뗈뗉뗊뗋뗌뗍뗎뗏뗐뗑뗒뗓뗔뗕뗖뗗뗘뗙뗚뗛뗜뗝뗞뗟뗠뗡뗢뗣뗤뗥뗦뗧뗨뗩뗪뗫",
      "뗬뗭뗮뗯뗰뗱뗲뗳뗴뗵뗶뗷뗸뗹뗺뗻뗼뗽뗾뗿뚀뚁뚂뚃뚄뚅뚆뚇뚈뚉뚊뚋뚌뚍뚎뚏뚐뚑뚒뚓뚔뚕뚖뚗뚘뚙뚚뚛뚜뚝뚞뚟뚠뚡뚢뚣뚤뚥뚦뚧뚨뚩뚪뚫",
      "뚬뚭뚮뚯뚰뚱뚲뚳뚴뚵뚶뚷뚸뚹뚺뚻뚼뚽뚾뚿뛀뛁뛂뛃뛄뛅뛆뛇뛈뛉뛊뛋뛌뛍뛎뛏뛐뛑뛒뛓뛔뛕뛖뛗뛘뛙뛚뛛뛜뛝뛞뛟뛠뛡뛢뛣뛤뛥뛦뛧뛨뛩뛪뛫",
      "뛬뛭뛮뛯뛰뛱뛲뛳뛴뛵뛶뛷뛸뛹뛺뛻뛼뛽뛾뛿란랁랂랃랄랅랆랇랈랉랊랋람랍랎랏랐랑랒랓랔랕랖랗래랙랚랛랜랝랞랟랠랡랢랣랤랥랦랧램랩랪랫",
      "랬랭랮랯랰랱랲랳랴략랶랷랸랹랺랻랼랽랾랿럀럁럂럃럄럅럆럇럈량럊럋럌럍럎럏럐럑럒럓럔럕럖럗럘럙럚럛럜럝럞럟럠럡럢럣럤럥럦럧럨럩럪럫",
      "러럭럮럯런럱럲럳럴럵럶럷럸럹럺럻럼럽럾럿뢀뢁뢂뢃뢄뢅뢆뢇뢈뢉뢊뢋뢌뢍뢎뢏뢐뢑뢒뢓뢔뢕뢖뢗뢘뢙뢚뢛뢜뢝뢞뢟뢠뢡뢢뢣뢤뢥뢦뢧뢨뢩뢪뢫",
      "뢬뢭뢮뢯뢰뢱뢲뢳뢴뢵뢶뢷뢸뢹뢺뢻뢼뢽뢾뢿룀룁룂룃룄룅룆룇룈룉룊룋료룍룎룏룐룑룒룓룔룕룖룗룘룙룚룛룜룝룞룟룠룡룢룣룤룥룦룧루룩룪룫",
      "룬룭룮룯룰룱룲룳룴룵룶룷룸룹룺룻룼룽룾룿릀릁릂릃름릅릆릇릈릉릊릋릌릍릎릏릐릑릒릓릔릕릖릗릘릙릚릛릜릝릞릟릠릡릢릣릤릥릦릧릨릩릪릫",
      "리릭릮릯린릱릲릳릴릵릶릷릸릹릺릻림립릾릿맀링맂맃맄맅맆맇마막맊맋만맍많맏말맑맒맓맔맕맖맗맘맙맚맛맜망맞맟맠맡맢맣매맥맦맧맨맩맪맫",
      "맬맭맮맯맰맱맲맳맴맵맶맷맸맹맺맻맼맽맾맿몀몁몂몃몄명몆몇몈몉몊몋몌몍몎몏몐몑몒몓몔몕몖몗몘몙몚몛몜몝몞몟몠몡몢몣몤몥몦몧모목몪몫",
      "몬몭몮몯몰몱몲몳몴몵몶몷몸몹몺못몼몽몾몿뫀뫁뫂뫃뫄뫅뫆뫇뫈뫉뫊뫋뫌뫍뫎뫏뫐뫑뫒뫓뫔뫕뫖뫗뫘뫙뫚뫛뫜뫝뫞뫟뫠뫡뫢뫣뫤뫥뫦뫧뫨뫩뫪뫫",
      "뫬뫭뫮뫯뫰뫱뫲뫳뫴뫵뫶뫷뫸뫹뫺뫻뫼뫽뫾뫿뮀뮁뮂뮃뮄뮅뮆뮇뮈뮉뮊뮋뮌뮍뮎뮏뮐뮑뮒뮓뮔뮕뮖뮗뮘뮙뮚뮛뮜뮝뮞뮟뮠뮡뮢뮣뮤뮥뮦뮧뮨뮩뮪뮫",
      "뮬뮭뮮뮯뮰뮱뮲뮳뮴뮵뮶뮷뮸뮹뮺뮻뮼뮽뮾뮿므믁믂믃믄믅믆믇믈믉믊믋믌믍믎믏믐믑믒믓믔믕믖믗믘믙믚믛믜믝믞믟믠믡믢믣믤믥믦믧믨믩믪믫",
      "믬믭믮믯믰믱믲믳믴믵믶믷미믹믺믻민믽믾믿벀벁벂벃버벅벆벇번벉벊벋벌벍벎벏벐벑벒벓범법벖벗벘벙벚벛벜벝벞벟베벡벢벣벤벥벦벧벨벩벪벫",
      "벬벭벮벯벰벱벲벳벴벵벶벷벸벹벺벻벼벽벾벿변볁볂볃별볅볆볇볈볉볊볋볌볍볎볏볐병볒볓볔볕볖볗볘볙볚볛볜볝볞볟볠볡볢볣볤볥볦볧볨볩볪볫",
      "볬볭볮볯볰볱볲볳보복볶볷본볹볺볻볼볽볾볿부북붂붃분붅붆붇불붉붊붋붌붍붎붏붐붑붒붓붔붕붖붗붘붙붚붛붜붝붞붟붠붡붢붣붤붥붦붧붨붩붪붫",
      "붬붭붮붯붰붱붲붳붴붵붶붷붸붹붺붻붼붽붾붿뷀뷁뷂뷃뷄뷅뷆뷇뷈뷉뷊뷋뷌뷍뷎뷏뷐뷑뷒뷓뷔뷕뷖뷗뷘뷙뷚뷛뷜뷝뷞뷟뷠뷡뷢뷣뷤뷥뷦뷧뷨뷩뷪뷫",
      "뷬뷭뷮뷯뷰뷱뷲뷳뷴뷵뷶뷷뷸뷹뷺뷻뷼뷽뷾뷿뺀뺁뺂뺃뺄뺅뺆뺇뺈뺉뺊뺋뺌뺍뺎뺏뺐뺑뺒뺓뺔뺕뺖뺗뺘뺙뺚뺛뺜뺝뺞뺟뺠뺡뺢뺣뺤뺥뺦뺧뺨뺩뺪뺫",
      "뺬뺭뺮뺯뺰뺱뺲뺳뺴뺵뺶뺷뺸뺹뺺뺻뺼뺽뺾뺿뻀뻁뻂뻃뻄뻅뻆뻇뻈뻉뻊뻋뻌뻍뻎뻏뻐뻑뻒뻓뻔뻕뻖뻗뻘뻙뻚뻛뻜뻝뻞뻟뻠뻡뻢뻣뻤뻥뻦뻧뻨뻩뻪뻫",
      "뻬뻭뻮뻯뻰뻱뻲뻳뻴뻵뻶뻷뻸뻹뻺뻻뻼뻽뻾뻿뾀뾁뾂뾃뾄뾅뾆뾇뾈뾉뾊뾋뾌뾍뾎뾏뾐뾑뾒뾓뾔뾕뾖뾗뾘뾙뾚뾛뾜뾝뾞뾟뾠뾡뾢뾣뾤뾥뾦뾧뾨뾩뾪뾫",
      "뾬뾭뾮뾯뾰뾱뾲뾳뾴뾵뾶뾷뾸뾹뾺뾻뾼뾽뾾뾿뿀뿁뿂뿃뿄뿅뿆뿇뿈뿉뿊뿋뿌뿍뿎뿏뿐뿑뿒뿓뿔뿕뿖뿗뿘뿙뿚뿛뿜뿝뿞뿟뿠뿡뿢뿣뿤뿥뿦뿧뿨뿩뿪뿫",
      "뿬뿭뿮뿯뿰뿱뿲뿳뿴뿵뿶뿷뿸뿹뿺뿻뿼뿽뿾뿿삀삁삂삃삄삅삆삇삈삉삊삋삌삍삎삏삐삑삒삓삔삕삖삗삘삙삚삛삜삝삞삟삠삡삢삣삤삥삦삧삨삩삪삫",
      "사삭삮삯산삱삲삳살삵삶삷삸삹삺삻삼삽삾삿샀상샂샃샄샅샆샇새색샊샋샌샍샎샏샐샑샒샓샔샕샖샗샘샙샚샛샜생샞샟샠샡샢샣샤샥샦샧샨샩샪샫",
      "샬샭샮샯샰샱샲샳샴샵샶샷샸샹샺샻샼샽샾샿솀솁솂솃솄솅솆솇솈솉솊솋소속솎솏손솑솒솓솔솕솖솗솘솙솚솛솜솝솞솟솠송솢솣솤솥솦솧솨솩솪솫",
      "솬솭솮솯솰솱솲솳솴솵솶솷솸솹솺솻솼솽솾솿쇀쇁쇂쇃쇄쇅쇆쇇쇈쇉쇊쇋쇌쇍쇎쇏쇐쇑쇒쇓쇔쇕쇖쇗쇘쇙쇚쇛쇜쇝쇞쇟쇠쇡쇢쇣쇤쇥쇦쇧쇨쇩쇪쇫",
      "쇬쇭쇮쇯쇰쇱쇲쇳쇴쇵쇶쇷쇸쇹쇺쇻쇼쇽쇾쇿슀슁슂슃슄슅슆슇슈슉슊슋슌슍슎슏슐슑슒슓슔슕슖슗슘슙슚슛슜슝슞슟슠슡슢슣스슥슦슧슨슩슪슫",
      "슬슭슮슯슰슱슲슳슴습슶슷슸승슺슻슼슽슾슿싀싁싂싃싄싅싆싇싈싉싊싋싌싍싎싏싐싑싒싓싔싕싖싗싘싙싚싛시식싞싟신싡싢싣실싥싦싧싨싩싪싫",
      "심십싮싯싰싱싲싳싴싵싶싷싸싹싺싻싼싽싾싿쎀쎁쎂쎃쎄쎅쎆쎇쎈쎉쎊쎋쎌쎍쎎쎏쎐쎑쎒쎓쎔쎕쎖쎗쎘쎙쎚쎛쎜쎝쎞쎟쎠쎡쎢쎣쎤쎥쎦쎧쎨쎩쎪쎫",
      "쎬쎭쎮쎯쎰쎱쎲쎳쎴쎵쎶쎷쎸쎹쎺쎻쎼쎽쎾쎿쏀쏁쏂쏃쏄쏅쏆쏇쏈쏉쏊쏋쏌쏍쏎쏏쏐쏑쏒쏓쏔쏕쏖쏗쏘쏙쏚쏛쏜쏝쏞쏟쏠쏡쏢쏣쏤쏥쏦쏧쏨쏩쏪쏫",
      "쏬쏭쏮쏯쏰쏱쏲쏳쏴쏵쏶쏷쏸쏹쏺쏻쏼쏽쏾쏿쒀쒁쒂쒃쒄쒅쒆쒇쒈쒉쒊쒋쒌쒍쒎쒏쒐쒑쒒쒓쒔쒕쒖쒗쒘쒙쒚쒛쒜쒝쒞쒟쒠쒡쒢쒣쒤쒥쒦쒧쒨쒩쒪쒫",
      "쒬쒭쒮쒯쒰쒱쒲쒳쒴쒵쒶쒷쒸쒹쒺쒻쒼쒽쒾쒿쓀쓁쓂쓃쓄쓅쓆쓇쓈쓉쓊쓋쓌쓍쓎쓏쓐쓑쓒쓓쓔쓕쓖쓗쓘쓙쓚쓛쓜쓝쓞쓟쓠쓡쓢쓣쓤쓥쓦쓧쓨쓩쓪쓫",
      "쓬쓭쓮쓯쓰쓱쓲쓳쓴쓵쓶쓷쓸쓹쓺쓻쓼쓽쓾쓿얀얁얂얃얄얅얆얇얈얉얊얋얌얍얎얏얐양얒얓얔얕얖얗얘얙얚얛얜얝얞얟얠얡얢얣얤얥얦얧얨얩얪얫",
      "얬얭얮얯얰얱얲얳어억얶얷언얹얺얻얼얽얾얿엀엁엂엃엄업없엇었엉엊엋엌엍엎엏에엑엒엓엔엕엖엗엘엙엚엛엜엝엞엟엠엡엢엣엤엥엦엧엨엩엪엫",
      "여역엮엯연엱엲엳열엵엶엷엸엹엺엻염엽엾엿욀욁욂욃욄욅욆욇욈욉욊욋욌욍욎욏욐욑욒욓요욕욖욗욘욙욚욛욜욝욞욟욠욡욢욣욤욥욦욧욨용욪욫",
      "욬욭욮욯우욱욲욳운욵욶욷울욹욺욻욼욽욾욿움웁웂웃웄웅웆웇웈웉웊웋워웍웎웏원웑웒웓월웕웖웗웘웙웚웛웜웝웞웟웠웡웢웣웤웥웦웧웨웩웪웫",
      "웬웭웮웯웰웱웲웳웴웵웶웷웸웹웺웻웼웽웾웿잀잁잂잃임입잆잇있잉잊잋잌잍잎잏자작잒잓잔잕잖잗잘잙잚잛잜잝잞잟잠잡잢잣잤장잦잧잨잩잪잫",
      "재잭잮잯잰잱잲잳잴잵잶잷잸잹잺잻잼잽잾잿쟀쟁쟂쟃쟄쟅쟆쟇쟈쟉쟊쟋쟌쟍쟎쟏쟐쟑쟒쟓쟔쟕쟖쟗쟘쟙쟚쟛쟜쟝쟞쟟쟠쟡쟢쟣쟤쟥쟦쟧쟨쟩쟪쟫",
      "쟬쟭쟮쟯쟰쟱쟲쟳쟴쟵쟶쟷쟸쟹쟺쟻쟼쟽쟾쟿좀좁좂좃좄종좆좇좈좉좊좋좌좍좎좏좐좑좒좓좔좕좖좗좘좙좚좛좜좝좞좟좠좡좢좣좤좥좦좧좨좩좪좫",
      "좬좭좮좯좰좱좲좳좴좵좶좷좸좹좺좻좼좽좾좿죀죁죂죃죄죅죆죇죈죉죊죋죌죍죎죏죐죑죒죓죔죕죖죗죘죙죚죛죜죝죞죟죠죡죢죣죤죥죦죧죨죩죪죫",
      "죬죭죮죯죰죱죲죳죴죵죶죷죸죹죺죻주죽죾죿즀즁즂즃즄즅즆즇즈즉즊즋즌즍즎즏즐즑즒즓즔즕즖즗즘즙즚즛즜증즞즟즠즡즢즣즤즥즦즧즨즩즪즫",
      "즬즭즮즯즰즱즲즳즴즵즶즷즸즹즺즻즼즽즾즿지직짂짃진짅짆짇질짉짊짋짌짍짎짏짐집짒짓짔징짖짗짘짙짚짛짜짝짞짟짠짡짢짣짤짥짦짧짨짩짪짫",
      "짬짭짮짯짰짱짲짳짴짵짶짷째짹짺짻짼짽짾짿쪀쪁쪂쪃쪄쪅쪆쪇쪈쪉쪊쪋쪌쪍쪎쪏쪐쪑쪒쪓쪔쪕쪖쪗쪘쪙쪚쪛쪜쪝쪞쪟쪠쪡쪢쪣쪤쪥쪦쪧쪨쪩쪪쪫",
      "쪬쪭쪮쪯쪰쪱쪲쪳쪴쪵쪶쪷쪸쪹쪺쪻쪼쪽쪾쪿쫀쫁쫂쫃쫄쫅쫆쫇쫈쫉쫊쫋쫌쫍쫎쫏쫐쫑쫒쫓쫔쫕쫖쫗쫘쫙쫚쫛쫜쫝쫞쫟쫠쫡쫢쫣쫤쫥쫦쫧쫨쫩쫪쫫",
      "쫬쫭쫮쫯쫰쫱쫲쫳쫴쫵쫶쫷쫸쫹쫺쫻쫼쫽쫾쫿쮀쮁쮂쮃쮄쮅쮆쮇쮈쮉쮊쮋쮌쮍쮎쮏쮐쮑쮒쮓쮔쮕쮖쮗쮘쮙쮚쮛쮜쮝쮞쮟쮠쮡쮢쮣쮤쮥쮦쮧쮨쮩쮪쮫",
      "쮬쮭쮮쮯쮰쮱쮲쮳쮴쮵쮶쮷쮸쮹쮺쮻쮼쮽쮾쮿쯀쯁쯂쯃쯄쯅쯆쯇쯈쯉쯊쯋쯌쯍쯎쯏쯐쯑쯒쯓쯔쯕쯖쯗쯘쯙쯚쯛쯜쯝쯞쯟쯠쯡쯢쯣쯤쯥쯦쯧쯨쯩쯪쯫",
      "쯬쯭쯮쯯쯰쯱쯲쯳쯴쯵쯶쯷쯸쯹쯺쯻쯼쯽쯾쯿첀첁첂첃첄첅첆첇첈첉첊첋첌첍첎첏첐첑첒첓첔첕첖첗처척첚첛천첝첞첟철첡첢첣첤첥첦첧첨첩첪첫",
      "첬청첮첯첰첱첲첳체첵첶첷첸첹첺첻첼첽첾첿쳀쳁쳂쳃쳄쳅쳆쳇쳈쳉쳊쳋쳌쳍쳎쳏쳐쳑쳒쳓쳔쳕쳖쳗쳘쳙쳚쳛쳜쳝쳞쳟쳠쳡쳢쳣쳤쳥쳦쳧쳨쳩쳪쳫",
      "쳬쳭쳮쳯쳰쳱쳲쳳쳴쳵쳶쳷쳸쳹쳺쳻쳼쳽쳾쳿춀춁춂춃춄춅춆춇춈춉춊춋춌춍춎춏춐춑춒춓추축춖춗춘춙춚춛출춝춞춟춠춡춢춣춤춥춦춧춨충춪춫",
      "춬춭춮춯춰춱춲춳춴춵춶춷춸춹춺춻춼춽춾춿췀췁췂췃췄췅췆췇췈췉췊췋췌췍췎췏췐췑췒췓췔췕췖췗췘췙췚췛췜췝췞췟췠췡췢췣췤췥췦췧취췩췪췫",
      "췬췭췮췯췰췱췲췳췴췵췶췷췸췹췺췻췼췽췾췿캀캁캂캃캄캅캆캇캈캉캊캋캌캍캎캏캐캑캒캓캔캕캖캗캘캙캚캛캜캝캞캟캠캡캢캣캤캥캦캧캨캩캪캫",
      "캬캭캮캯캰캱캲캳캴캵캶캷캸캹캺캻캼캽캾캿컀컁컂컃컄컅컆컇컈컉컊컋컌컍컎컏컐컑컒컓컔컕컖컗컘컙컚컛컜컝컞컟컠컡컢컣커컥컦컧컨컩컪컫",
      "컬컭컮컯컰컱컲컳컴컵컶컷컸컹컺컻컼컽컾컿쾀쾁쾂쾃쾄쾅쾆쾇쾈쾉쾊쾋쾌쾍쾎쾏쾐쾑쾒쾓쾔쾕쾖쾗쾘쾙쾚쾛쾜쾝쾞쾟쾠쾡쾢쾣쾤쾥쾦쾧쾨쾩쾪쾫",
      "쾬쾭쾮쾯쾰쾱쾲쾳쾴쾵쾶쾷쾸쾹쾺쾻쾼쾽쾾쾿쿀쿁쿂쿃쿄쿅쿆쿇쿈쿉쿊쿋쿌쿍쿎쿏쿐쿑쿒쿓쿔쿕쿖쿗쿘쿙쿚쿛쿜쿝쿞쿟쿠쿡쿢쿣쿤쿥쿦쿧쿨쿩쿪쿫",
      "쿬쿭쿮쿯쿰쿱쿲쿳쿴쿵쿶쿷쿸쿹쿺쿻쿼쿽쿾쿿킀킁킂킃킄킅킆킇킈킉킊킋킌킍킎킏킐킑킒킓킔킕킖킗킘킙킚킛킜킝킞킟킠킡킢킣키킥킦킧킨킩킪킫",
      "킬킭킮킯킰킱킲킳킴킵킶킷킸킹킺킻킼킽킾킿타탁탂탃탄탅탆탇탈탉탊탋탌탍탎탏탐탑탒탓탔탕탖탗탘탙탚탛태택탞탟탠탡탢탣탤탥탦탧탨탩탪탫",
      "탬탭탮탯탰탱탲탳탴탵탶탷탸탹탺탻탼탽탾탿톀톁톂톃톄톅톆톇톈톉톊톋톌톍톎톏톐톑톒톓톔톕톖톗톘톙톚톛톜톝톞톟토톡톢톣톤톥톦톧톨톩톪톫",
      "톬톭톮톯톰톱톲톳톴통톶톷톸톹톺톻톼톽톾톿퇀퇁퇂퇃퇄퇅퇆퇇퇈퇉퇊퇋퇌퇍퇎퇏퇐퇑퇒퇓퇔퇕퇖퇗퇘퇙퇚퇛퇜퇝퇞퇟퇠퇡퇢퇣퇤퇥퇦퇧퇨퇩퇪퇫",
      "퇬퇭퇮퇯퇰퇱퇲퇳퇴퇵퇶퇷퇸퇹퇺퇻퇼퇽퇾퇿튀튁튂튃튄튅튆튇튈튉튊튋튌튍튎튏튐튑튒튓튔튕튖튗튘튙튚튛튜튝튞튟튠튡튢튣튤튥튦튧튨튩튪튫",
      "튬튭튮튯튰튱튲튳튴튵튶튷트특튺튻튼튽튾튿틀틁틂틃틄틅틆틇틈틉틊틋틌틍틎틏틐틑틒틓틔틕틖틗틘틙틚틛틜틝틞틟틠틡틢틣틤틥틦틧틨틩틪틫",
      "틬틭틮틯티틱틲틳틴틵틶틷틸틹틺틻틼틽틾틿펀펁펂펃펄펅펆펇펈펉펊펋펌펍펎펏펐펑펒펓펔펕펖펗페펙펚펛펜펝펞펟펠펡펢펣펤펥펦펧펨펩펪펫",
      "펬펭펮펯펰펱펲펳펴펵펶펷편펹펺펻펼펽펾펿폀폁폂폃폄폅폆폇폈평폊폋폌폍폎폏폐폑폒폓폔폕폖폗폘폙폚폛폜폝폞폟폠폡폢폣폤폥폦폧폨폩폪폫",
      "포폭폮폯폰폱폲폳폴폵폶폷폸폹폺폻폼폽폾폿풀풁풂풃풄풅풆풇품풉풊풋풌풍풎풏풐풑풒풓풔풕풖풗풘풙풚풛풜풝풞풟풠풡풢풣풤풥풦풧풨풩풪풫",
      "풬풭풮풯풰풱풲풳풴풵풶풷풸풹풺풻풼풽풾풿퓀퓁퓂퓃퓄퓅퓆퓇퓈퓉퓊퓋퓌퓍퓎퓏퓐퓑퓒퓓퓔퓕퓖퓗퓘퓙퓚퓛퓜퓝퓞퓟퓠퓡퓢퓣퓤퓥퓦퓧퓨퓩퓪퓫",
      "퓬퓭퓮퓯퓰퓱퓲퓳퓴퓵퓶퓷퓸퓹퓺퓻퓼퓽퓾퓿햀햁햂햃햄햅햆햇했행햊햋햌햍햎햏햐햑햒햓햔햕햖햗햘햙햚햛햜햝햞햟햠햡햢햣햤향햦햧햨햩햪햫",
      "햬햭햮햯햰햱햲햳햴햵햶햷햸햹햺햻햼햽햾햿헀헁헂헃헄헅헆헇허헉헊헋헌헍헎헏헐헑헒헓헔헕헖헗험헙헚헛헜헝헞헟헠헡헢헣헤헥헦헧헨헩헪헫",
      "헬헭헮헯헰헱헲헳헴헵헶헷헸헹헺헻헼헽헾헿횀횁횂횃횄횅횆횇횈횉횊횋회획횎횏횐횑횒횓횔횕횖횗횘횙횚횛횜횝횞횟횠횡횢횣횤횥횦횧효횩횪횫",
      "횬횭횮횯횰횱횲횳횴횵횶횷횸횹횺횻횼횽횾횿훀훁훂훃후훅훆훇훈훉훊훋훌훍훎훏훐훑훒훓훔훕훖훗훘훙훚훛훜훝훞훟훠훡훢훣훤훥훦훧훨훩훪훫",
      "훬훭훮훯훰훱훲훳훴훵훶훷훸훹훺훻훼훽훾훿힀힁힂힃힄힅힆힇히힉힊힋힌힍힎힏힐힑힒힓힔힕힖힗힘힙힚힛힜힝힞힟힠힡힢힣ힰힱힲힳힴힵힶힷ",
      "ힸힹힺힻힼힽힾힿퟀퟁퟂퟃퟄퟅퟆퟋퟌퟍퟎퟏퟐퟑퟒퟓퟔퟕퟖퟗퟘퟙퟚퟛퟜퟝퟞퟟퟠퟡퟢퟣퟤퟥퟦퟧퟨퟩퟪퟫퟬퟭퟮퟯퟰퟱퟲퟳퟴퟵퟶퟷퟸퟹퟺퟻ",
      "呂女廬旅濾礪閭驪麗黎力曆歷轢年憐戀撚漣煉璉秊練聯輦蓮連鍊列劣咽烈裂說廉念捻殮簾獵令囹寧嶺怜玲瑩羚聆鈴零靈領例禮醴隸惡了僚寮尿料樂",
      "燎療蓼遼龍暈阮劉杻柳流溜琉留硫紐類六戮陸倫崙淪輪律慄栗率隆利吏履易李梨泥理痢罹裏裡里離匿溺吝燐璘藺隣鱗麟林淋臨立笠粒狀炙識什茶刺",
      "婢嬨廒廙彩徭惘慎愈憎慠懲戴揄搜摒敖晴朗望杖歹殺流滛滋漢瀞煮瞧爵犯猪瑱甆画瘝瘟益盛直睊着磌窱節类絛練缾者荒華蝹襁覆視調諸請謁諾諭謹",
      "變贈輸遲醙鉶陼難靖韛響頋頻鬒龜𢡊𢡄𣏕㮝䀘䀹𥉉𥳐𧻓齃龎ﮀﮁﮂﮃﮄﮅﮆﮇﮈﮉﮊﮋﮌﮍﮎﮏﮐﮑﮒﮓﮔﮕﮖﮗﮘﮙﮚﮛﮜﮝﮞﮟﮠﮡﮢﮣﮤﮥ",
      "ﮦﮧﮨﮩﮪﮫﮬﮭﮮﮯﮰﮱﯓﯔﯕﯖﯗﯘﯙﯚﯛﯜﯝﯞﯟﯠﯡﯢﯣﯤﯥﯦﯧﯨﯩﯪﯫﯬﯭﯮﯯﯰﯱﯲﯳﯴﯵﯶﯷﯸﯹﯺﯻﯼﯽﯾﯿﲀﲁﲂﲃﲄﲅﲆ",
      "ﲇﲈﲉﲊﲋﲌﲍﲎﲏﲐﲑﲒﲓﲔﲕﲖﲗﲘﲙﲚﲛﲜﲝﲞﲟﲠﲡﲢﲣﲤﲥﲦﲧﲨﲩﲪﲫﲬﲭﲮﲯﲰﲱﲲﲳﲴﲵﲶﲷﲸﲹﲺﲻﲼﲽﲾﲿﳀﳁﳂﳃﳄﳅﳆ",
      "ﳇﳈﳉﳊﳋﳌﳍﳎﳏﳐﳑﳒﳓﳔﳕﳖﳗﳘﳙﳚﳛﳜﳝﳞﳟﳠﳡﳢﳣﳤﳥﳦﳧﳨﳩﳪﳫﳬﳭﳮﳯﳰﳱﳲﳳﳴﳵﳶﳷﳸﳹﳺﳻﳼﳽﳾﳿﶀﶁﶂﶃﶄﶅﶆ",
      "ﶇﶈﶉﶊﶋﶌﶍﶎﶏﶒﶓﶔﶕﶖﶗﶘﶙﶚﶛﶜﶝﶞﶟﶠﶡﶢﶣﶤﶥﶦﶧﶨﶩﶪﶫﶬﶭﶮﶯﶰﶱﶲﶳﶴﶵﶶﶷﶸﶹﶺﶻﶼﶽﶾﶿﷀﷁﷂﷃﷄﷅﷆﷇﷰ",
      "ﷱﷲﷳﷴﷵﷶﷷﷸﷹﷺﷻﺀﺁﺂﺃﺄﺅﺆﺇﺈﺉﺊﺋﺌﺍﺎﺏﺐﺑﺒﺓﺔﺕﺖﺗﺘﺙﺚﺛﺜﺝﺞﺟﺠﺡﺢﺣﺤﺥﺦﺧﺨﺩﺪﺫﺬﺭﺮﺯﺰﺱﺲﺳﺴ",
      "ﺵﺶﺷﺸﺹﺺﺻﺼﺽﺾﺿﻀﻁﻂﻃﻄﻅﻆﻇﻈﻉﻊﻋﻌﻍﻎﻏﻐﻑﻒﻓﻔﻕﻖﻗﻘﻙﻚﻛﻜﻝﻞﻟﻠﻡﻢﻣﻤﻥﻦﻧﻨﻩﻪﻫﻬﻭﻮﻯﻰﻱﻲﻳﻴ",
      "ﻵﻶﻷﻸﻹﻺﻻﻼﾀﾁﾂﾃﾄﾅﾆﾇﾈﾉﾊﾋﾌﾍﾎﾏﾐﾑﾒﾓﾔﾕﾖﾗﾘﾙﾚﾛﾜﾝﾞﾟﾠﾡﾢﾣﾤﾥﾦﾧﾨﾩﾪﾫﾬﾭﾮﾯﾰﾱﾲﾳﾴﾵﾶﾷ",
      "ﾸﾹﾺﾻﾼﾽﾾￂￃￄￅￆￇￊￋￌￍￎￏￒￓￔￕￖￗￚￛￜ">>

\* Whether the capital sigma at place i of s ends a word: the nearest
\* character before it that is not passed over has a letter case, and the
\* nearest after it, if any, has none
FinalSigma(s, i) ==
    LET before == {j \in 1..(i - 1) : At(s, j) \notin CaseIgnorable}
        after == {j \in (i + 1)..Len(s) : At(s, j) \notin CaseIgnorable}
    IN /\ before # {}
       /\ At(s, CHOOSE j \in before : \A k \in before : k <= j) \in Cased
       /\ \/ after = {}
          \/ At(s, CHOOSE j \in after : \A k \in after : j <= k) \notin Cased

\* The lower case of the character at place i of s. A character of kept
\* stays as it is; a character of LowerBeyond that is not kept has no lower
\* case here, and neither has a text that holds it.
LowerAt(s, i, kept) ==
    IF At(s, i) = "Σ" THEN (IF FinalSigma(s, i) THEN "ς" ELSE "σ")
    ELSE IF At(s, i) \in kept THEN At(s, i)
    ELSE IF At(s, i) \in DOMAIN LowerOf \cup LowerBeyond THEN LowerOf[At(s, i)]
    ELSE At(s, i)

RECURSIVE LowerBetween(_, _, _, _)
LowerBetween(s, first, last, kept) ==
    IF first > last THEN ""
    ELSE IF first = last THEN LowerAt(s, first, kept)
    ELSE LowerBetween(s, first, (first + last) \div 2, kept)
             \o LowerBetween(s, (first + last) \div 2 + 1, last, kept)

\* str.lower() and str.upper(), a long text taken half by half
Lower(s) == LowerBetween(s, 1, Len(s), {})

\* s.lower() as a search for ASCII text sees it: the lower case of a character
\* of LowerBeyond is one character that is no ASCII character, as the
\* character itself, which stands here in its place
Lowered(s) == LowerBetween(s, 1, Len(s), LowerBeyond)

RECURSIVE Upper(_)
Upper(s) ==
    IF s = "" THEN ""
    ELSE IF Len(s) = 1 THEN (IF s \in DOMAIN UpperOf \cup UpperBeyond THEN UpperOf[s] ELSE s)
    ELSE Upper(Take(s, Len(s) \div 2)) \o Upper(Drop(s, Len(s) \div 2))

StartsWith(s, p) == Len(p) <= Len(s) /\ SubSeq(s, 1, Len(p)) = p
EndsWith(s, p) == Len(p) <= Len(s) /\ SubSeq(s, Len(s) - Len(p) + 1, Len(s)) = p
MatchAt(s, p, i) == i >= 1 /\ i + Len(p) - 1 <= Len(s) /\ SubSeq(s, i, i + Len(p) - 1) = p

\* re.search of a literal pattern
Contains(s, p) == \E i \in 1..(Len(s) - Len(p) + 1) : MatchAt(s, p, i)

\* str.strip(): whitespace off both ends
RECURSIVE LStrip(_, _)
LStrip(s, cs) == IF s # "" /\ Head(s) \in cs THEN LStrip(Tail(s), cs) ELSE s

RECURSIVE RStrip(_, _)
RStrip(s, cs) ==
    IF s # "" /\ At(s, Len(s)) \in cs THEN RStrip(SubSeq(s, 1, Len(s) - 1), cs) ELSE s

StripChars(s, cs) == RStrip(LStrip(s, cs), cs)
Strip(s) == StripChars(s, Whitespace)

\* re.sub(r'[cs]', '', s), str.replace(c, '') for single characters
RECURSIVE RemoveChars(_, _)
RemoveChars(s, cs) ==
    IF s = "" THEN ""
    ELSE (IF Head(s) \in cs THEN "" ELSE Head(s)) \o RemoveChars(Tail(s), cs)

\* str.replace(old, new): every non-overlapping occurrence, left to right
RECURSIVE Replace(_, _, _)
Replace(s, old, new) ==
    IF old = "" \/ Len(s) < Len(old) THEN s
    ELSE IF StartsWith(s, old)
         THEN new \o Replace(SubSeq(s, Len(old) + 1, Len(s)), old, new)
         ELSE Head(s) \o Replace(Tail(s), old, new)

\* str.count(c) for a single character
RECURSIVE Count(_, _)
Count(s, c) ==
    IF s = "" THEN 0 ELSE (IF Head(s) = c THEN 1 ELSE 0) + Count(Tail(s), c)

\* str.rfind(c): the 0-based index of the last c, -1 when there is none
RFind(s, c) ==
    IF \E i \in 1..Len(s) : At(s, i) = c
    THEN (CHOOSE i \in 1..Len(s) :
              At(s, i) = c /\ \A j \in (i + 1)..Len(s) : At(s, j) # c) - 1
    ELSE 0 - 1

AllIn(s, cs) == \A i \in 1..Len(s) : At(s, i) \in cs

\* int() of a string of decimal digits
RECURSIVE IntOf(_)
IntOf(s) == IF s = "" THEN 0 ELSE IntOf(SubSeq(s, 1, Len(s) - 1)) * 10 + DigitValue[At(s, Len(s))]

\* str() of a natural number
RECURSIVE StrOf(_)
StrOf(n) == IF n < 10 THEN At("0123456789", n + 1) ELSE StrOf(n \div 10) \o At("0123456789", (n % 10) + 1)

\* The strings over an alphabet of at most n characters
RECURSIVE StringsUpTo(_, _)
StringsUpTo(alphabet, n) ==
    IF n = 0 THEN {""}
    ELSE LET shorter == StringsUpTo(alphabet, n - 1)
         IN shorter \cup {s \o c : s \in shorter, c \in alphabet}

\* The digits of a natural number, with zeros in front up to a width
RECURSIVE Padded(_, _)
Padded(text, width) == IF Len(text) >= width THEN text ELSE Padded("0" \o text, width)

\* A run of zeros to cut shorter runs from
ZeroText ==
       "0000000000000000000000000000000000000000000000000000000000000000"
    \o "0000000000000000000000000000000000000000000000000000000000000000"
    \o "0000000000000000000000000000000000000000000000000000000000000000"
    \o "0000000000000000000000000000000000000000000000000000000000000000"
    \o "0000000000000000000000000000000000000000000000000000000000000000"
    \o "0000000000000000000000000000000000000000000000000000000000000000"
    \o "0000000000000000000000000000000000000000000000000000000000000000"
    \o "0000000000000000000000000000000000000000000000000000000000000000"
    \o "0000000000000000000000000000000000000000000000000000000000000000"
    \o "0000000000000000000000000000000000000000000000000000000000000000"
    \o "0000000000000000000000000000000000000000000000000000000000000000"
    \o "0000000000000000000000000000000000000000000000000000000000000000"
    \o "0000000000000000000000000000000000000000000000000000000000000000"

\* repr() of a float that is a decimal number: the shortest digits, with an
\* exponent from 1e16 on and below 1e-4
FloatRepr(v) ==
    LET n == IF v.n < 0 THEN 0 - v.n ELSE v.n
        sign == IF v.n < 0 THEN "-" ELSE ""
        digits == StrOf(n)
        adjusted == Len(digits) - 1 - v.e
        mantissa == IF Len(digits) = 1 THEN digits
                    ELSE Take(digits, 1) \o "." \o Drop(digits, 1)
    IN IF n = 0 THEN "0.0"
       ELSE IF adjusted >= 16 THEN sign \o mantissa \o "e+" \o StrOf(adjusted)
       ELSE IF adjusted < 0 - 4
            THEN sign \o mantissa \o "e-" \o Padded(StrOf(0 - adjusted), 2)
       ELSE IF v.e = 0 THEN sign \o digits \o ".0"
       ELSE IF v.e < 0 THEN sign \o digits \o Padded("", 0 - v.e) \o ".0"
       ELSE LET padded == Padded(digits, v.e + 1)
            IN sign \o Take(padded, Len(padded) - v.e) \o "."
                    \o Drop(padded, Len(padded) - v.e)

\* bool(v): None, the empty text and a zero are false
Truthy(v) ==
    CASE v.type = "NoneType" -> FALSE
      [] v.type = "str" -> v.s # ""
      [] v.type = "int" -> v.i # 0
      [] v.type = "float" -> IsSpecial(v) \/ v.n # 0
      [] OTHER -> TRUE

\* str(v)
str(v) ==
    CASE v.type = "str" -> v.s
      [] v.type = "NoneType" -> "None"
      [] v.type = "int" -> IF v.i < 0 THEN "-" \o StrOf(0 - v.i) ELSE StrOf(v.i)
      [] v.type = "float" -> IF IsSpecial(v) THEN v.special ELSE FloatRepr(v)
      [] v.type = "datetime" ->
             Padded(StrOf(v.year), 4) \o "-" \o Padded(StrOf(v.month), 2) \o "-"
                 \o Padded(StrOf(v.day), 2) \o " 00:00:00"
      [] v.type = "Timestamp" ->
             Padded(StrOf(v.year), 4) \o "-" \o Padded(StrOf(v.month), 2) \o "-"
                 \o Padded(StrOf(v.day), 2) \o " " \o Padded(StrOf(v.hour), 2) \o ":"
                 \o Padded(StrOf(v.minute), 2) \o ":" \o Padded(StrOf(v.second), 2)
      [] v.type = "NaT" -> "NaT"

-----------------------------------------------------------------------------
(* parse_number                                                            *)

RECURSIVE Pow10(_)
Pow10(k) == IF k <= 0 THEN 1 ELSE 10 * Pow10(k - 1)

\* digit (["_"] digit)*: the digit groups float() and int() accept
IsDigitPart(p) ==
    /\ p # ""
    /\ AllIn(p, Digits \cup {"_"})
    /\ Head(p) # "_" /\ At(p, Len(p)) # "_"
    /\ ~Contains(p, "__")

\* Whole numbers too long for an integer, as texts of decimal digits.

\* Which of two digit texts of one length is the larger number: -1, 0 or 1
RECURSIVE Compared(_, _)
Compared(a, b) ==
    IF a = b THEN 0
    ELSE IF Len(a) = 1 THEN (IF DigitValue[a] < DigitValue[b] THEN 0 - 1 ELSE 1)
    ELSE IF Take(a, Len(a) \div 2) = Take(b, Len(a) \div 2)
         THEN Compared(Drop(a, Len(a) \div 2), Drop(b, Len(a) \div 2))
         ELSE Compared(Take(a, Len(a) \div 2), Take(b, Len(a) \div 2))

IsZeros(text) == text = "" \/ Compared(text, SubSeq(ZeroText, 1, Len(text))) = 0

\* A digit text without the zeros in front, "0" for zero
WithoutLeadingZeros(text) ==
    IF IsZeros(text) THEN "0"
    ELSE Drop(text, (CHOOSE i \in 1..Len(text) :
                         At(text, i) # "0" /\ IsZeros(Take(text, i - 1))) - 1)

\* The number plus one, in as many digits and one more when all are nines
PlusOne(text) ==
    LET others == {i \in 1..Len(text) : At(text, i) # "9"}
        last == CHOOSE i \in others : \A j \in others : j <= i
    IN IF others = {} THEN "1" \o SubSeq(ZeroText, 1, Len(text))
       ELSE Take(text, last - 1) \o StrOf(DigitValue[At(text, last)] + 1)
                \o SubSeq(ZeroText, 1, Len(text) - last)

\* Every digit d replaced by 9 - d
RECURSIVE NinesComplement(_)
NinesComplement(text) ==
    IF text = "" THEN ""
    ELSE IF Len(text) = 1 THEN StrOf(9 - DigitValue[text])
    ELSE NinesComplement(Take(text, Len(text) \div 2))
             \o NinesComplement(Drop(text, Len(text) \div 2))

\* The number in groups of four digits, the lowest group first
Groups(text) ==
    LET count == (Len(text) + 3) \div 4
        padded == Padded(text, 4 * count)
    IN [i \in 1..count |-> IntOf(SubSeq(padded, 4 * (count - i) + 1, 4 * (count - i) + 4))]

\* The sum of a[t - j + 1] * b[j] over the groups j of b, from j on
RECURSIVE ColumnSum(_, _, _, _)
ColumnSum(a, b, t, j) ==
    IF j > Len(b) THEN 0
    ELSE (IF t - j + 1 \in 1..Len(a) THEN a[t - j + 1] * b[j] ELSE 0)
             + ColumnSum(a, b, t, j + 1)

\* The columns first..last of a product written out in groups of four
\* digits, the upper half taking the carry of the lower
CarriedJoin(low, high) == [text |-> high.text \o low.text, carry |-> high.carry]

RECURSIVE Carried(_, _, _, _)
\* (the lower half is worked out before the upper is begun)
CarriedUpper(columns, middle, last, low) ==
    IF low.carry = 0
    THEN CarriedJoin(low, Carried(columns, middle + 1, last, 0))
    ELSE CarriedJoin(low, Carried(columns, middle + 1, last, low.carry))

Carried(columns, first, last, carry) ==
    IF first = last
    THEN [text |-> Padded(StrOf((columns[first] + carry) % 10000), 4),
          carry |-> (columns[first] + carry) \div 10000]
    ELSE CarriedUpper(columns, (first + last) \div 2, last,
                      Carried(columns, first, (first + last) \div 2, carry))

ProductOfGroups(a, b) ==
    Carried([t \in 1..(Len(a) + Len(b)) |-> ColumnSum(a, b, t, 1)],
            1, Len(a) + Len(b), 0).text

\* The product of a long number and one of at most twenty digits
Times(long, short) == WithoutLeadingZeros(ProductOfGroups(Groups(long), Groups(short)))

\* The doubles of least magnitude are the multiples of 2^-1074, which is
\* 5^1074 * 10^-1074; half of it is 5^1075 * 10^-1075. Below 2^-1022, which
\* is 2^52 of them, they are all the doubles there are.
TwoTo1074 ==
       "2024022533073106183524953467189173070495566497641421183569013580"
    \o "2743033956799534689196038370143712449518707786431681191138980873"
    \o "7385793476867013399940738509921517424276566361364466907742093216"
    \o "3412397676784727450685620074834246926986181033556491595563408100"
    \o "5651235876955233341461523050253218632750864600626330770774109349"
    \o "4784"
FiveTo1075 ==
       "2470328229206232720882843964341106861825299013071623822127928412"
    \o "5033775363510437593264991818081799618989828234772285886546332835"
    \o "5177969898199387398005390939063150356595155702263922908583924491"
    \o "0518443593180284993653615250031937045767824921936562366986365848"
    \o "0757001585769269903706311928279558551332927834338409351978015531"
    \o "2465972635795746227664652728272200563740064854999770965994704540"
    \o "2082816622623785739345073633900796776193057750674017632467360096"
    \o "8951340535537458516661134223766678604162159680461914467291840300"
    \o "5300575308490487653917113865916462395249126236538818796362393732"
    \o "8042389101867234849766823508986338858792562830275599565752445550"
    \o "7255189313690836254779186948667994968324049705821028513185451396"
    \o "213837722826145437693412532098591327667236328125"
TwoTo52 == "4503599627370496"

\* The text rounded to a whole number after dropping its last `places`
\* digits, a half going to the even neighbour
RoundedHalfEven(kept, dropped) ==
    IF \/ DigitValue[Take(dropped, 1)] > 5
       \/ /\ Take(dropped, 1) = "5"
          /\ (~IsZeros(Drop(dropped, 1)) \/ DigitValue[At(kept, Len(kept))] % 2 = 1)
    THEN PlusOne(kept)
    ELSE kept

ShiftedRight(text, places) ==
    WithoutLeadingZeros(RoundedHalfEven(Take(text, Len(text) - places),
                                        Drop(text, Len(text) - places)))

\* How many times 2^-1074 the double nearest to n * 10^-e is, for e > 0
Multiple(n, e) == ShiftedRight(Padded(Times(TwoTo1074, StrOf(n)), e + 1), e)

\* Whether a distance, in units of 10^-1075, is within half of 2^-1074; a
\* distance of exactly one half counts when the multiple is even
WithinHalf(distance, even) ==
    IF Len(distance) < Len(FiveTo1075) THEN TRUE
    ELSE /\ IsZeros(Take(distance, Len(distance) - Len(FiveTo1075)))
         /\ Compared(Drop(distance, Len(distance) - Len(FiveTo1075)), FiveTo1075)
                <= (IF even THEN 0 ELSE 0 - 1)

\* The digits kept and the power of ten dropped; NoDigits for none
NoDigits == [n |-> 0 - 1, e |-> 0]
Digits10(kept, dropped) == [n |-> IntOf(kept), e |-> 1075 - Len(dropped)]

\* The first m digits of the value, or those plus one, whichever is the
\* nearer of the two that round to the double; NoDigits when neither does
Nearest(kept, below, above, even) ==
    IF IsZeros(below) THEN Digits10(kept, below)
    ELSE IF WithinHalf(below, even) /\ WithinHalf(above, even)
    THEN (IF \/ Compared(below, above) < 0
             \/ (Compared(below, above) = 0 /\ DigitValue[At(kept, Len(kept))] % 2 = 0)
          THEN Digits10(kept, below) ELSE Digits10(PlusOne(kept), below))
    ELSE IF WithinHalf(below, even) THEN Digits10(kept, below)
    ELSE IF WithinHalf(above, even) THEN Digits10(PlusOne(kept), below)
    ELSE NoDigits

\* repr of the double: the fewest digits that round to it, m digits or more
RECURSIVE Shortest(_, _, _)
ShortestOr(value, m, even, found) ==
    IF found # NoDigits \/ m >= Len(value) THEN found ELSE Shortest(value, m + 1, even)

Shortest(value, m, even) ==
    ShortestOr(value, m, even,
               Nearest(Take(value, m), Drop(value, m),
                       PlusOne(NinesComplement(Drop(value, m))), even))

\* The double that is `multiple` times 2^-1074, written with the fewest digits
Subnormal(multiple) ==
    Shortest(Times(FiveTo1075, Times(multiple, "2")), 1,
             DigitValue[At(multiple, Len(multiple))] % 2 = 0)

\* The largest double is 2^1024 - 2^971; from 2^1024 - 2^970 on, the halfway
\* point to 2^1024, float() gives inf. These are its first digits, the
\* number being 1.7976931348623158079...e308.
OverflowDigits == "17976931348623158"

FloatOfDigits(digits) == Canon(digits.n, digits.e)

\* The float n * 10^-e of n > 0 whose first digit stands for 10^-308 or
\* less: a multiple of 2^-1074 when it is below 2^-1022
Tiny(n, e, multiple) ==
    IF multiple = "0" THEN Canon(0, 0)
    ELSE IF \/ Len(multiple) > Len(TwoTo52)
            \/ (Len(multiple) = Len(TwoTo52) /\ Compared(multiple, TwoTo52) >= 0)
    THEN Canon(n, e)
    ELSE FloatOfDigits(Subnormal(multiple))

\* A whole number n * 10^-e, e < 0, too long to be written out: its digits
\* without the zeros at the end
RECURSIVE Whole(_, _)
Whole(n, e) ==
    IF n % 10 = 0 THEN Whole(n \div 10, e - 1) ELSE [type |-> "float", n |-> n, e |-> e]

\* The float n * 10^-e for a natural n and any integer e, rounded as float()
\* rounds: past the largest double the value is inf, near zero it is the
\* nearest multiple of 2^-1074; a whole number too long to be written out
\* keeps its power of ten as a negative e.
Scaled(n, e) ==
    LET adjusted == Len(StrOf(n)) - 1 - e
    IN IF n = 0 THEN Canon(0, 0)
       ELSE IF adjusted > 308 THEN Inf
       ELSE IF adjusted = 308
               /\ Compared(StrOf(n), Take(OverflowDigits, Len(StrOf(n)))) > 0 THEN Inf
       ELSE IF adjusted < 0 - 324 THEN Canon(0, 0)
       ELSE IF adjusted <= 0 - 308 THEN Tiny(n, e, Multiple(n, e))
       ELSE IF e >= 0 THEN Canon(n, e)
       ELSE IF adjusted <= 8 THEN Canon(n * Pow10(0 - e), 0)
       ELSE Whole(n, e)

\* How many zeros of any script end a text of digits
TrailingZeros(digits) ==
    LET others == {i \in 1..Len(digits) : DigitValue[At(digits, i)] # 0}
    IN IF others = {} THEN 0
       ELSE Len(digits) - (CHOOSE i \in others : \A j \in others : j <= i)

\* The float digits * 10^-e, the zeros that end the digits left out of the
\* whole number read from them
ScaledDigits(digits, e, zeros) ==
    Scaled(IntOf(Take(digits, Len(digits) - zeros)), e - zeros)

WithSign(minus, num) == IF minus THEN Neg(num) ELSE num

\* The number of a mantissa with at most one '.' and at least one digit and
\* of the exponent after 'e' (has_exponent: there is an 'e'); ValueError
\* when either is not made of digit groups
FloatOfParts(minus, mantissa, exponent, has_exponent) ==
    LET esigned == exponent # "" /\ Head(exponent) \in {"+", "-"}
        edigits == IF esigned THEN Tail(exponent) ELSE exponent
        dot == RFind(mantissa, ".")
        whole == IF dot < 0 THEN mantissa ELSE Take(mantissa, dot)
        frac == IF dot < 0 THEN "" ELSE Drop(mantissa, dot + 1)
        digits == RemoveChars(whole \o frac, {"_"})
        fraction == Len(RemoveChars(frac, {"_"}))
        exp == IF ~has_exponent THEN 0
               ELSE IF esigned /\ Head(exponent) = "-"
                    THEN 0 - IntOf(RemoveChars(edigits, {"_"}))
                    ELSE IntOf(RemoveChars(edigits, {"_"}))
    IN IF /\ Count(mantissa, ".") <= 1
          /\ whole = "" \/ IsDigitPart(whole)
          /\ frac = "" \/ IsDigitPart(frac)
          /\ digits # ""
          /\ ~has_exponent \/ IsDigitPart(edigits)
       THEN WithSign(minus, ScaledDigits(digits, fraction - exp, TrailingZeros(digits)))
       ELSE ValueError

\* The float of a text without its sign: "inf", "infinity" or "nan" in any
\* letter case (low is the text lower-cased), or a mantissa and an optional
\* exponent after the first 'e'
FloatOfBody(minus, body, low) ==
    LET epos == IF Contains(low, "e")
                THEN CHOOSE k \in 1..Len(low) :
                         At(low, k) = "e" /\ \A j \in 1..(k - 1) : At(low, j) # "e"
                ELSE 0
    IN IF low \in {"inf", "infinity"} THEN WithSign(minus, Inf)
       ELSE IF low = "nan" THEN NaN
       ELSE FloatOfParts(minus,
                         IF epos = 0 THEN body ELSE Take(body, epos - 1),
                         IF epos = 0 THEN "" ELSE Drop(body, epos),
                         epos # 0)

\* The float of a text without surrounding whitespace: an optional sign first
FloatOfUnsigned(minus, body) == FloatOfBody(minus, body, Lowered(body))

FloatOfText(text) ==
    FloatOfUnsigned(text # "" /\ Head(text) = "-",
                    IF text # "" /\ Head(text) \in {"+", "-"} THEN Tail(text) ELSE text)

\* The whitespace float() passes over at either end: that of str.strip()
\* without the four separators 0x1c-0x1f
FloatSpace == Whitespace \ {"", "", "", ""}

\* float(val): surrounding whitespace, an optional sign, then "inf",
\* "infinity" or "nan" in any letter case, or digit groups with at most one
\* '.' and at least one digit, and an optional exponent; ValueError otherwise
float(val) == FloatOfText(StripChars(val, FloatSpace))

\* SeparatorsResolved with the first, not the last, separator taken as the decimal point
SeparatorsResolvedByFirst(val) ==
    IF Contains(val, ",") /\ Contains(val, ".")
    THEN IF RFind(val, ",") < RFind(val, ".")
         THEN Replace(Replace(val, ".", ""), ",", ".")
         ELSE Replace(val, ",", "")
    ELSE IF Contains(val, ",") /\ ~Contains(val, ".")
         THEN IF Count(val, ",") = 1 /\ Len(val) - RFind(val, ",") - 1 <= 2
              THEN Replace(val, ",", ".")
              ELSE Replace(val, ",", "")
         ELSE Replace(val, ",", "")

\* SeparatorsResolved with a lone kind of comma always taken as the decimal point
SeparatorsResolvedCommaDecimal(val) ==
    IF Contains(val, ",") /\ Contains(val, ".")
    THEN IF RFind(val, ",") > RFind(val, ".")
         THEN Replace(Replace(val, ".", ""), ",", ".")
         ELSE Replace(val, ",", "")
    ELSE Replace(val, ",", ".")

\* Lines 40-60: the text handed to float()
SeparatorsResolved(val) ==
    IF Contains(val, ",") /\ Contains(val, ".")
    THEN IF RFind(val, ",") > RFind(val, ".")
         THEN Replace(Replace(val, ".", ""), ",", ".")
         ELSE Replace(val, ",", "")
    ELSE IF Contains(val, ",") /\ ~Contains(val, ".")
         THEN IF Count(val, ",") = 1 /\ Len(val) - RFind(val, ",") - 1 <= 2
              THEN Replace(val, ",", ".")
              ELSE Replace(val, ",", "")
         ELSE Replace(val, ",", "")

Trimmed(val) == StripChars(Strip(val), {"\""})
\* re.match(r'^\(.*\)$', val): '.' takes no newline, '$' also stands before a
\* last newline
has_parens(val) ==
    LET body == IF EndsWith(val, "\n") THEN Take(val, Len(val) - 1) ELSE val
    IN /\ Len(body) >= 2
       /\ StartsWith(body, "(") /\ EndsWith(body, ")")
       /\ ~Contains(body, "\n")
has_trailing_minus(val) == EndsWith(val, "-")
is_negative(val) == StartsWith(val, "-")
Unsigned(val) ==
    RemoveChars(RemoveChars(val, Whitespace \cup {"€", "$", "£"}), {"-", "(", ")"})

\* NegativeCue with a leading and a trailing minus cancelling each other
NegativeCueCancelling(val) == has_parens(val) \/ (has_trailing_minus(val) # is_negative(val))

\* Line 64: the three cues, combined by or
NegativeCue(val) == has_parens(val) \/ has_trailing_minus(val) \/ is_negative(val)

\* Lines 62-66: try float(val), except ValueError return 0.0
ParsedOrZero(num) == IF num = ValueError THEN Zero ELSE num

\* Lines 62-64: the float, negated when a cue was seen
Negated(num, negative) == IF num # ValueError /\ negative THEN Neg(num) ELSE num

parse_number(val) ==
    IF val.type # "str" \/ val.s = "" THEN Zero
    ELSE LET v == Trimmed(val.s)
         IN ParsedOrZero(Negated(float(SeparatorsResolved(Unsigned(v))), NegativeCue(v)))


-----------------------------------------------------------------------------
(* parse_date_smart                                                        *)

MonthNames ==
    <<"january", "february", "march", "april", "may", "june", "july", "august",
      "september", "october", "november", "december">>

\* month_names: the month number of a lower-cased name, 0 when it is not in the table
month_names(name) ==
    IF \E m \in 1..12 : MonthNames[m] = name
    THEN CHOOSE m \in 1..12 : MonthNames[m] = name
    ELSE 0

IsLeap(y) == (y % 4 = 0 /\ y % 100 # 0) \/ y % 400 = 0

DaysInMonth(y, m) ==
    IF m = 2 THEN (IF IsLeap(y) THEN 29 ELSE 28)
    ELSE IF m \in {4, 6, 9, 11} THEN 30 ELSE 31

\* datetime(y, m, d): a date, or ValueError when a component is out of range
datetime(y, m, d) ==
    IF y \in 1..9999 /\ m \in 1..12 /\ d \in 1..DaysInMonth(y, m)
    THEN [type |-> "datetime", year |-> y, month |-> m, day |-> d]
    ELSE ValueError

\* What pandas.to_datetime of line 109 hands back: a Timestamp or the null
\* date NaT
Timestamp(y, m, d, hh, mm, ss) ==
    [type |-> "Timestamp", year |-> y, month |-> m, day |-> d,
     hour |-> hh, minute |-> mm, second |-> ss]
NaT == [type |-> "NaT"]

\* The Timestamp of a text in none of the forms read below: what date pandas
\* reads in it, if any, is left open
SomeTimestamp(text) == [type |-> "Timestamp", text |-> text]

\* The texts pandas reads as the null date
NatTexts == {"", "NaT", "nat", "NAT", "nan", "NaN", "NAN"}

NoMatch == [type |-> "nomatch"]

\* The number of leading characters of s that are in cs
RECURSIVE PrefixLen(_, _)
PrefixLen(s, cs) == IF s # "" /\ Head(s) \in cs THEN 1 + PrefixLen(Tail(s), cs) ELSE 0


\* re.match(r'^(\d{1,2})\s+([A-Za-z]+)\s+(\d{4})$'): <<day, name, year>> or NoMatch
MonthNameMatch(s) ==
    LET n1 == PrefixLen(s, Digits)
        r1 == Drop(s, n1)
        w1 == PrefixLen(r1, Whitespace)
        r2 == Drop(r1, w1)
        n2 == PrefixLen(r2, Letters)
        r3 == Drop(r2, n2)
        w2 == PrefixLen(r3, Whitespace)
        r4 == Drop(r3, w2)
    IN IF n1 \in 1..2 /\ w1 >= 1 /\ n2 >= 1 /\ w2 >= 1 /\ Len(r4) = 4 /\ AllIn(r4, Digits)
       THEN <<Take(s, n1), Take(r2, n2), r4>>
       ELSE NoMatch

\* re.match of three digit groups of the given lengths separated by one '/' or '-'
ThreeNumbersMatch(s, lens1, lens2, lens3) ==
    LET n1 == PrefixLen(s, Digits)
        r1 == Drop(s, n1)
        r2 == Drop(r1, 1)
        n2 == PrefixLen(r2, Digits)
        r3 == Drop(r2, n2)
        r4 == Drop(r3, 1)
    IN IF /\ n1 \in lens1
          /\ r1 # "" /\ Head(r1) \in {"/", "-"}
          /\ n2 \in lens2
          /\ r3 # "" /\ Head(r3) \in {"/", "-"}
          /\ Len(r4) \in lens3 /\ AllIn(r4, Digits)
       THEN <<Take(s, n1), Take(r2, n2), r4>>
       ELSE NoMatch

\* Lines 85-92: "30 September 2025"; NoMatch also when the name is not a month
TryMonthName(s) ==
    LET match == MonthNameMatch(s)
    IN IF match # NoMatch /\ month_names(Lower(match[2])) # 0
       THEN datetime(IntOf(match[3]), month_names(Lower(match[2])), IntOf(match[1]))
       ELSE NoMatch

\* Lines 95-98: yyyy-mm-dd or yyyy/mm/dd
TryIso(s) ==
    LET match == ThreeNumbersMatch(s, {4}, 1..2, 1..2)
    IN IF match # NoMatch
       THEN datetime(IntOf(match[1]), IntOf(match[2]), IntOf(match[3]))
       ELSE NoMatch

\* TryEu reading the month first
TryEuMonthFirst(s) ==
    LET match == ThreeNumbersMatch(s, 1..2, 1..2, {4})
    IN IF match # NoMatch
       THEN datetime(IntOf(match[3]), IntOf(match[1]), IntOf(match[2]))
       ELSE NoMatch

\* Lines 101-104: dd/mm/yyyy or dd-mm-yyyy
TryEu(s) ==
    LET match == ThreeNumbersMatch(s, 1..2, 1..2, {4})
    IN IF match # NoMatch
       THEN datetime(IntOf(match[3]), IntOf(match[2]), IntOf(match[1]))
       ELSE NoMatch

\* pd.to_datetime(text, dayfirst=True), line 109, as pandas and the dateutil
\* parser behind it read a text; None stands for the exception that line 110
\* catches. The forms read here are those where the fast paths of pandas and
\* dateutil give the same date.

\* The month names dateutil knows, January and Jan alike, and Sept
MonthWord(name) ==
    IF name = "sept" THEN 9
    ELSE IF \E m \in 1..12 : name \in {MonthNames[m], Take(MonthNames[m], 3)}
    THEN CHOOSE m \in 1..12 : name \in {MonthNames[m], Take(MonthNames[m], 3)}
    ELSE 0

WeekdayWords == {"mon", "tue", "wed", "thu", "fri", "sat", "sun"}

\* A year of two digits: dateutil takes the century that brings it within
\* fifty years of today, strptime's %y takes 2000 up to 68; both give 2000 + y
\* for the years read here
MaxShortYear == 68
YearOf(digits) == IF Len(digits) = 4 THEN IntOf(digits) ELSE 2000 + IntOf(digits)

\* A Timestamp holds the dates from 1677-09-21 to 2262-04-11. A date that is
\* none, or a time that is none, raises; pandas 2 raises on a date off that
\* range as well and pandas 3 keeps it.
Stamped(y, m, d, hh, mm, ss) ==
    IF datetime(y, m, d) = ValueError \/ hh > 23 \/ mm > 59 \/ ss > 59 THEN {PyNone}
    ELSE IF y \in 1678..2261 THEN {Timestamp(y, m, d, hh, mm, ss)}
    ELSE {PyNone, Timestamp(y, m, d, hh, mm, ss)}

\* Three groups of ASCII digits with the same separator twice: the groups or
\* NoMatch
ThreeGroups(s, seps) ==
    LET n1 == PrefixLen(s, AsciiDigits)
        r1 == Drop(s, n1)
        r2 == Drop(r1, 1)
        n2 == PrefixLen(r2, AsciiDigits)
        r3 == Drop(r2, n2)
        r4 == Drop(r3, 1)
    IN IF /\ n1 >= 1 /\ r1 # "" /\ Head(r1) \in seps
          /\ n2 >= 1 /\ r3 # "" /\ Head(r3) = Head(r1)
          /\ r4 # "" /\ AllIn(r4, AsciiDigits)
       THEN <<Take(s, n1), Take(r2, n2), r4>>
       ELSE NoMatch

\* "30.09.2025", "30/09/25": day, month and year in numbers, the year last,
\* of four digits or of two up to MaxShortYear, the first number 31 at most
DayFirstForm(s) ==
    LET groups == ThreeGroups(s, {".", "/", "-"})
    IN IF /\ groups # NoMatch
          /\ Len(groups[1]) <= 2 /\ Len(groups[2]) <= 2 /\ Len(groups[3]) \in {2, 4}
          /\ IntOf(groups[1]) <= 31
          /\ Len(groups[3]) = 2 => IntOf(groups[3]) <= MaxShortYear
       THEN groups
       ELSE NoMatch

\* dateutil's resolve_ymd with dayfirst: the first number is the day when it
\* is more than 12 or the second is 12 at most, the month otherwise
DayFirst(groups) ==
    IF IntOf(groups[1]) > 12 \/ IntOf(groups[2]) <= 12
    THEN Stamped(YearOf(groups[3]), IntOf(groups[2]), IntOf(groups[1]), 0, 0, 0)
    ELSE Stamped(YearOf(groups[3]), IntOf(groups[1]), IntOf(groups[2]), 0, 0, 0)

\* The separator after a number or a name: one '-' or a run of spaces
GapLen(s) == IF s # "" /\ Head(s) = "-" THEN 1 ELSE PrefixLen(s, {" "})

\* "30 Sept 2025", "30 September 25", "30-Sep-2025": day, month name and year
NamedForm(s) ==
    LET n1 == PrefixLen(s, AsciiDigits)
        r1 == Drop(s, n1)
        r2 == Drop(r1, GapLen(r1))
        n2 == PrefixLen(r2, Letters)
        r3 == Drop(r2, n2)
        r4 == Drop(r3, GapLen(r3))
    IN IF /\ n1 \in 1..2 /\ GapLen(r1) >= 1 /\ n2 >= 1 /\ GapLen(r3) >= 1
          /\ Head(r1) = Head(r3)
          /\ Len(r4) \in {2, 4} /\ AllIn(r4, AsciiDigits)
          /\ MonthWord(Lower(Take(r2, n2))) # 0
          /\ Len(r4) = 2 => (IntOf(Take(s, n1)) <= 31 /\ IntOf(r4) <= MaxShortYear)
       THEN <<Take(s, n1), Take(r2, n2), r4>>
       ELSE NoMatch

Named(groups) ==
    Stamped(YearOf(groups[3]), MonthWord(Lower(groups[2])), IntOf(groups[1]), 0, 0, 0)

\* "2025-09-30T10:00", "2025-09-30 10:00:05": the ISO 8601 date with a time,
\* the day more than 12 (a day that could be a month is left open)
IsoTimeForm(s) ==
    IF /\ Len(s) \in {16, 19}
       /\ AllIn(SubSeq(s, 1, 4) \o SubSeq(s, 6, 7) \o SubSeq(s, 9, 10)
                    \o SubSeq(s, 12, 13) \o SubSeq(s, 15, 16)
                    \o (IF Len(s) = 19 THEN SubSeq(s, 18, 19) ELSE ""),
                AsciiDigits)
       /\ At(s, 5) = "-" /\ At(s, 8) = "-" /\ At(s, 11) \in {"T", " "} /\ At(s, 14) = ":"
       /\ Len(s) = 19 => At(s, 17) = ":"
       /\ IntOf(SubSeq(s, 9, 10)) > 12
    THEN <<SubSeq(s, 1, 4), SubSeq(s, 6, 7), SubSeq(s, 9, 10), SubSeq(s, 12, 13),
           SubSeq(s, 15, 16), IF Len(s) = 19 THEN SubSeq(s, 18, 19) ELSE "00">>
    ELSE NoMatch

\* "20250930": year, month and day in eight digits, the day more than 12
EightDigitForm(s) ==
    IF Len(s) = 8 /\ AllIn(s, AsciiDigits) /\ IntOf(SubSeq(s, 7, 8)) > 12
    THEN <<SubSeq(s, 1, 4), SubSeq(s, 5, 6), SubSeq(s, 7, 8), "00", "00", "00">>
    ELSE NoMatch

YearFirst(groups) ==
    Stamped(IntOf(groups[1]), IntOf(groups[2]), IntOf(groups[3]),
            IntOf(groups[4]), IntOf(groups[5]), IntOf(groups[6]))

\* A text with no digit, no month or weekday name and not 'now' or 'today'
\* holds nothing dateutil takes for a date: the parser raises
IsWordless(s) ==
    /\ \A i \in 1..Len(s) : At(s, i) \notin Digits \cup OtherDigits
    /\ \A m \in 1..12 : ~Contains(Lowered(s), Take(MonthNames[m], 3))
    /\ \A day \in WeekdayWords : ~Contains(Lowered(s), day)
    /\ Lowered(s) \notin {"now", "today"}

to_datetime(text) ==
    IF text \in NatTexts THEN {NaT}
    ELSE IF DayFirstForm(text) # NoMatch THEN DayFirst(DayFirstForm(text))
    ELSE IF NamedForm(text) # NoMatch THEN Named(NamedForm(text))
    ELSE IF IsoTimeForm(text) # NoMatch THEN YearFirst(IsoTimeForm(text))
    ELSE IF EightDigitForm(text) # NoMatch THEN YearFirst(EightDigitForm(text))
    ELSE IF IsWordless(text) THEN {PyNone}
    ELSE {PyNone, SomeTimestamp(text)}

\* Lines 107-111 for the argument: what pandas makes of its text, or None
\* when the import of line 108 fails, pandas not being installed
FallbackOf(date_str) == {PyNone} \cup to_datetime(Strip(str(date_str)))

\* Whether line 109 is reached: the value is truthy and none of the three
\* forms reads its text
ReachesFallback(date_str) ==
    /\ Truthy(date_str)
    /\ TryMonthName(Strip(str(date_str))) = NoMatch
    /\ TryIso(Strip(str(date_str))) = NoMatch
    /\ TryEu(Strip(str(date_str))) = NoMatch

\* Lines 85-111 on the trimmed text: the three forms in turn, then the fallback
DateOfText(s, fallback) ==
    IF TryMonthName(s) # NoMatch THEN TryMonthName(s)
    ELSE IF TryIso(s) # NoMatch THEN TryIso(s)
    ELSE IF TryEu(s) # NoMatch THEN TryEu(s)
    ELSE fallback

\* Lines 69-111. fallback is what the pandas parser of lines 107-111 yields
\* (None when it raises: the bare except catches everything).
parse_date_smart(date_str, fallback) ==
    IF ~Truthy(date_str) THEN PyNone ELSE DateOfText(Strip(str(date_str)), fallback)

-----------------------------------------------------------------------------
(* get_transaction_type                                                    *)

\* One  if re.search(pattern, detail_lower): return label.  The pattern is an
\* alternation a|b|... of alternatives, each a literal or literals joined by .*
Rule(alts, label) == [alts |-> alts, label |-> label]

\* The card rules with the generic "card ending in" tested first
CardRulesGenericFirst ==
    <<Rule({<<"card ending in">>}, "card transaction"),
      Rule({<<"card transaction">>}, "card payment")>>

\* Card transactions (lines 124-127)
CardTransactionsRules ==
    <<Rule({<<"card transaction">>}, "card payment"),
      Rule({<<"card ending in">>}, "card transaction")>>

\* Transfers (lines 130-145)
TransfersRules ==
    <<Rule({<<"sent money to">>}, "outgoing transfer"),
      Rule({<<"received money from">>}, "incoming transfer"),
      Rule({<<"account to account">>}, "account transfer"),
      Rule({<<"transfer between own accounts">>}, "internal transfer"),
      Rule({<<"sct inwards">>}, "incoming sct transfer"),
      Rule({<<"sct outwards">>}, "outgoing sct transfer"),
      Rule({<<"instant payments inwards">>}, "instant payment in"),
      Rule({<<"instant payment">>}, "instant payment")>>

\* Cheques (lines 148-155)
ChequesRules ==
    <<Rule({<<"cheque", "deposit">>}, "cheque deposit"),
      Rule({<<"cheque", "returned">>}, "cheque returned fee"),
      Rule({<<"cheques returned">>}, "cheque returned"),
      Rule({<<"cheque">>}, "cheque payment")>>

\* The fee rules with each specific phrase tested before the generic one
FeesChargesSpecificFirst ==
    <<Rule({<<"wise charges">>}, "transfer fee"),
      Rule({<<"administration fee">>}, "administration fee"),
      Rule({<<"standing instruction charge">>}, "standing instruction charge"),
      Rule({<<"standing instruction">>}, "standing instruction"),
      Rule({<<"fee">>}, "bank fee"),
      Rule({<<"charge">>}, "bank charge")>>

\* Fees & charges (lines 158-169)
FeesChargesRules ==
    <<Rule({<<"wise charges">>}, "transfer fee"),
      Rule({<<"fee">>}, "bank fee"),
      Rule({<<"charge">>}, "bank charge"),
      Rule({<<"administration fee">>}, "administration fee"),
      Rule({<<"standing instruction charge">>}, "standing instruction charge"),
      Rule({<<"standing instruction">>}, "standing instruction")>>

\* Salaries & employment (lines 172-177)
SalariesEmploymentRules ==
    <<Rule({<<"salary">>}, "salary"),
      Rule({<<"employment">>}, "employment payment"),
      Rule({<<"stipendio">>, <<"stipend">>}, "stipend/salary")>>

\* Loans & repayments (lines 180-185)
LoansRepaymentsRules ==
    <<Rule({<<"repayment", "principal">>}, "loan principal repayment"),
      Rule({<<"repayment", "interest">>}, "loan interest repayment"),
      Rule({<<"loan">>}, "loan")>>

\* Taxes & government (lines 188-195)
TaxesGovernmentRules ==
    <<Rule({<<"tax">>}, "tax payment"),
      Rule({<<"vat">>}, "vat payment"),
      Rule({<<"customs">>}, "customs payment"),
      Rule({<<"government">>, <<"gov">>}, "government payment")>>

\* ATM deposits (lines 198-199)
AtmDepositsRules ==
    <<Rule({<<"atm", "cash", "deposit">>}, "atm cash deposit")>>

\* 24x7 payments (lines 202-207)
Payments24x7Rules ==
    <<Rule({<<"24x7 pay">>}, "third party payment"),
      Rule({<<"24x7 bill">>}, "bill payment"),
      Rule({<<"24x7 mobile pay">>}, "mobile payment")>>

\* Direct debits (lines 210-211)
DirectDebitsRules ==
    <<Rule({<<"sdd outwards">>}, "direct debit out")>>

\* Insurance (lines 214-215)
InsuranceRules ==
    <<Rule({<<"mapfre">>, <<"msv life">>, <<"insurance">>}, "insurance payment")>>

\* Retail / food / hospitality (lines 218-225)
RetailFoodHospitalityRules ==
    <<Rule({<<"hotel">>}, "hotel payment"),
      Rule({<<"catering">>}, "catering payment"),
      Rule({<<"butcher">>, <<"food">>, <<"supermarket">>, <<"restaurant">>, <<"eat">>}, "food & retail"),
      Rule({<<"retail">>}, "retail payment")>>

\* Utilities (lines 228-229)
UtilitiesRules ==
    <<Rule({<<"electricity">>, <<"water">>, <<"gas">>, <<"utility">>}, "utility payment")>>

\* Misc (lines 232-239)
MiscRules ==
    <<Rule({<<"cashback">>, <<"balance_cashback">>}, "cashback"),
      Rule({<<"refund">>}, "refund"),
      Rule({<<"deposit">>}, "deposit"),
      Rule({<<"withdrawal">>}, "withdrawal")>>

Rules ==
    CardTransactionsRules \o TransfersRules \o ChequesRules \o FeesChargesRules
        \o SalariesEmploymentRules \o LoansRepaymentsRules \o TaxesGovernmentRules
        \o AtmDepositsRules \o Payments24x7Rules \o DirectDebitsRules \o InsuranceRules
        \o RetailFoodHospitalityRules \o UtilitiesRules \o MiscRules

\* re.match of  .*p2.*p3...  at the start of s: the literals in order, without
\* overlap, and no newline before the last of them ('.' takes none)
RECURSIVE FollowsInOrder(_, _)
FollowsInOrder(s, literals) ==
    IF literals = <<>> THEN TRUE
    ELSE LET p == Head(literals)
         IN \E k \in 1..Len(s) :
                /\ MatchAt(s, p, k)
                /\ ~Contains(Take(s, k - 1), "\n")
                /\ FollowsInOrder(Drop(s, k + Len(p) - 1), Tail(literals))

\* re.search of  p1.*p2.*...
SearchInOrder(s, literals) ==
    IF literals = <<>> THEN TRUE
    ELSE \E k \in 1..Len(s) :
             /\ MatchAt(s, Head(literals), k)
             /\ FollowsInOrder(Drop(s, k + Len(Head(literals)) - 1), Tail(literals))

RuleMatches(s, rule) == \E alt \in rule.alts : SearchInOrder(s, alt)

\* The label of the first rule from the i-th on that matches, "other" when none does
RECURSIVE FirstMatch(_, _, _)
FirstMatch(s, rules, i) ==
    IF i > Len(rules) THEN "other"
    ELSE IF RuleMatches(s, rules[i]) THEN rules[i].label
    ELSE FirstMatch(s, rules, i + 1)

\* detail.lower() on a value that is no text
AttributeError == [type |-> "raise", exc |-> "AttributeError"]

\* get_transaction_type returning an empty label for an empty detail
get_transaction_type_empty_label(detail) ==
    IF ~Truthy(detail) THEN PyStr("")
    ELSE IF detail.type # "str" THEN AttributeError
    ELSE PyStr(FirstMatch(Lowered(detail.s), Rules, 1))

\* Lines 114-241
get_transaction_type(detail) ==
    IF ~Truthy(detail) THEN PyStr("other")
    ELSE IF detail.type # "str" THEN AttributeError
    ELSE PyStr(FirstMatch(Lowered(detail.s), Rules, 1))

-----------------------------------------------------------------------------
(* wamo_categorization: its own parse_number and get_transaction_type      *)

\* Lines 40-52 of wamo_categorization: the text handed to float()
WamoResolved(val) ==
    LET bare == RemoveChars(val, Whitespace \cup {"€", "$", "£"})
        resolved == IF Contains(bare, ",") /\ Contains(bare, ".")
                    THEN Replace(Replace(bare, ".", ""), ",", ".")
                    ELSE IF Contains(bare, ",") /\ ~Contains(bare, ".")
                         THEN Replace(bare, ",", ".")
                         ELSE Replace(bare, ",", "")
    IN RemoveChars(resolved, {"(", ")", "-"})

\* wamo_categorization.parse_number (lines 25-60)
wamo_parse_number(val) ==
    IF val.type # "str" \/ val.s = "" THEN Zero
    ELSE LET v == Strip(val.s)
         IN ParsedOrZero(Negated(float(WamoResolved(v)),
                                 has_parens(v) \/ has_trailing_minus(v)))

\* The tests of wamo_categorization.get_transaction_type in their order
\* (lines 116-232)
WamoRules ==
    <<Rule({<<"card transaction">>}, "card payment"),
      Rule({<<"sent money to">>}, "outgoing transfer"),
      Rule({<<"received money from">>}, "incoming transfer"),
      Rule({<<"wise charges">>}, "transfer fee"),
      Rule({<<"cashback">>, <<"balance_cashback">>}, "cashback"),
      Rule({<<"card ending in">>}, "card transaction"),
      Rule({<<"cheque", "deposit">>}, "cheque deposit"),
      Rule({<<"cheque", "returned">>}, "cheque returned fee"),
      Rule({<<"cheques returned">>}, "cheque returned"),
      Rule({<<"cheque">>}, "cheque payment"),
      Rule({<<"account to account">>}, "account transfer"),
      Rule({<<"transfer between own accounts">>}, "internal transfer"),
      Rule({<<"sct inwards">>}, "incoming sct transfer"),
      Rule({<<"sct outwards">>}, "outgoing sct transfer"),
      Rule({<<"instant payments inwards">>}, "instant payment in"),
      Rule({<<"instant payment">>}, "instant payment"),
      Rule({<<"fee">>}, "bank fee"),
      Rule({<<"charge">>}, "bank charge"),
      Rule({<<"administration fee">>}, "administration fee"),
      Rule({<<"standing instruction charge">>}, "standing instruction charge"),
      Rule({<<"standing instruction">>}, "standing instruction"),
      Rule({<<"salary">>}, "salary"),
      Rule({<<"employment">>}, "employment payment"),
      Rule({<<"stipendio">>, <<"stipend">>}, "stipend/salary"),
      Rule({<<"repayment", "principal">>}, "loan principal repayment"),
      Rule({<<"repayment", "interest">>}, "loan interest repayment"),
      Rule({<<"loan">>}, "loan"),
      Rule({<<"tax">>}, "tax payment"),
      Rule({<<"vat">>}, "vat payment"),
      Rule({<<"customs">>}, "customs payment"),
      Rule({<<"government">>, <<"gov">>}, "government payment"),
      Rule({<<"atm", "cash", "deposit">>}, "atm cash deposit"),
      Rule({<<"24x7 pay">>}, "third party payment"),
      Rule({<<"24x7 bill">>}, "bill payment"),
      Rule({<<"24x7 mobile pay">>}, "mobile payment"),
      Rule({<<"sdd outwards">>}, "direct debit out"),
      Rule({<<"mapfre">>, <<"msv life">>, <<"insurance">>}, "insurance payment"),
      Rule({<<"hotel">>}, "hotel payment"),
      Rule({<<"catering">>}, "catering payment"),
      Rule({<<"butcher">>, <<"food">>, <<"supermarket">>, <<"restaurant">>, <<"eat">>}, "food & retail"),
      Rule({<<"retail">>}, "retail payment"),
      Rule({<<"electricity">>, <<"water">>, <<"gas">>, <<"utility">>}, "utility payment"),
      Rule({<<"refund">>}, "refund"),
      Rule({<<"deposit">>}, "deposit"),
      Rule({<<"withdrawal">>}, "withdrawal")>>

\* wamo_categorization.get_transaction_type (lines 107-234)
wamo_get_transaction_type(detail) ==
    IF ~Truthy(detail) THEN PyStr("other")
    ELSE IF detail.type # "str" THEN AttributeError
    ELSE PyStr(FirstMatch(Lowered(detail.s), WamoRules, 1))

-----------------------------------------------------------------------------
(* extract_transactions_from_pdf: the line loop                            *)

\* re.search(r'Description\s+Incoming\s+Outgoing\s+Amount', line, re.IGNORECASE)
RECURSIVE WordsFollow(_, _)
WordsFollow(s, words) ==
    IF words = <<>> THEN TRUE
    ELSE LET w == PrefixLen(s, Whitespace)
             r == Drop(s, w)
         IN w >= 1 /\ StartsWith(r, Head(words))
                   /\ WordsFollow(Drop(r, Len(Head(words))), Tail(words))

IsHeader(line) ==
    LET l == Lowered(line)
    IN \E i \in 1..Len(l) :
           /\ MatchAt(l, "description", i)
           /\ WordsFollow(Drop(l, i + Len("description") - 1),
                          <<"incoming", "outgoing", "amount">>)

\* re.search(r'(Opening Balance|Closing Balance|Total|Page \d+)', line, re.IGNORECASE)
IsTerminal(line) ==
    LET l == Lowered(line)
    IN \/ Contains(l, "opening balance")
       \/ Contains(l, "closing balance")
       \/ Contains(l, "total")
       \/ \E i \in 1..(Len(l) - 5) : MatchAt(l, "page ", i) /\ At(l, i + 5) \in Digits

\* The text up to its first newline
FirstLine(s) ==
    IF Contains(s, "\n")
    THEN Take(s, (CHOOSE k \in 1..Len(s) :
                      At(s, k) = "\n" /\ \A j \in 1..(k - 1) : At(s, j) # "\n") - 1)
    ELSE s

StatementMonths ==
    {"January", "February", "March", "April", "May", "June", "July", "August",
     "September", "October", "November", "December"}

\* \s+(.+) at the start of r: where the group starts, 0 when it cannot. The
\* whitespace gives back what '.' needs, and '.' takes no newline.
RestStart(r) ==
    LET starts == {p \in 2..(PrefixLen(r, Whitespace) + 1) : p <= Len(r) /\ At(r, p) # "\n"}
    IN IF starts = {} THEN 0 ELSE CHOOSE p \in starts : \A q \in starts : q <= p

\* The two groups of the match: the date_len first characters of the line,
\* and the rest r of the line from start up to its first newline
DateAndRest(line, date_len, r, start) ==
    IF start = 0 THEN NoMatch ELSE <<Take(line, date_len), FirstLine(Drop(r, start - 1))>>

\* re.match(r'^(\d{1,2}\s+(?:January|...|December)\s+\d{4})\s+(.+)', line):
\* <<date_str, rest_of_line>> or NoMatch
date_match(line) ==
    LET n1 == PrefixLen(line, Digits)
        r1 == Drop(line, n1)
        w1 == PrefixLen(r1, Whitespace)
        r2 == Drop(r1, w1)
        names == {name \in StatementMonths : StartsWith(r2, name)}
        name == CHOOSE n \in names : TRUE
        r3 == Drop(r2, Len(name))
        w2 == PrefixLen(r3, Whitespace)
        r4 == Drop(r3, w2)
        date_len == n1 + w1 + Len(name) + w2 + 4
    IN IF /\ n1 \in 1..2 /\ w1 >= 1 /\ names # {} /\ w2 >= 1
          /\ Len(r4) >= 4 /\ AllIn(Take(r4, 4), Digits)
       THEN DateAndRest(line, date_len, Drop(r4, 4), RestStart(Drop(r4, 4)))
       ELSE NoMatch

\* The length of the match of  [-]?[\d,]+\.\d{2}  at the start of s, 0 when none
AmountLen(s) ==
    LET sign == IF StartsWith(s, "-") THEN 1 ELSE 0
        body == Drop(s, sign)
        k == PrefixLen(body, Digits \cup {","})
    IN IF /\ k >= 1
          /\ Len(body) >= k + 3
          /\ At(body, k + 1) = "."
          /\ At(body, k + 2) \in Digits /\ At(body, k + 3) \in Digits
       THEN sign + k + 3
       ELSE 0

\* re.findall(r'[-]?[\d,]+\.\d{2}', s)
RECURSIVE findall_amounts(_)
findall_amounts(s) ==
    IF s = "" THEN <<>>
    ELSE IF AmountLen(s) > 0
         THEN <<Take(s, AmountLen(s))>> \o findall_amounts(Drop(s, AmountLen(s)))
         ELSE findall_amounts(Tail(s))

\* for amt in amounts: text = text.replace(amt, ''), then strip()
RECURSIVE WithoutAmounts(_, _)
WithoutAmounts(text, amounts) ==
    IF amounts = <<>> THEN Strip(text)
    ELSE WithoutAmounts(Replace(text, Head(amounts), ""), Tail(amounts))

\* The second-to-last number read as incoming where the statement shows a minus
SecondAmountSignFlipped(amounts) ==
    [field |-> IF StartsWith(amounts[Len(amounts) - 1], "-") THEN "incoming" ELSE "outgoing",
     value |-> Abs(parse_number(PyStr(amounts[Len(amounts) - 1])))]

\* Lines 96-104 and 131-136: the second-to-last number, outgoing when its
\* token starts with '-', incoming otherwise
SecondAmount(amounts) ==
    [field |-> IF StartsWith(amounts[Len(amounts) - 1], "-") THEN "outgoing" ELSE "incoming",
     value |-> Abs(parse_number(PyStr(amounts[Len(amounts) - 1])))]

\* Lines 76-119: the pending record a date-leading line starts
NewTransaction(date_obj, rest_of_line) ==
    LET amounts == findall_amounts(rest_of_line)
        two == Len(amounts) >= 2
    IN [Date |-> date_obj,
        description |-> WithoutAmounts(rest_of_line, amounts),
        incoming |-> IF two /\ SecondAmount(amounts).field = "incoming"
                     THEN SecondAmount(amounts).value ELSE PyNone,
        outgoing |-> IF two /\ SecondAmount(amounts).field = "outgoing"
                     THEN SecondAmount(amounts).value ELSE PyNone,
        balance |-> IF amounts # <<>> THEN parse_number(PyStr(amounts[Len(amounts)]))
                    ELSE PyNone]

\* Continued with an incoming or outgoing value kept once it is set
ContinuedFirstWins(trans, line) ==
    LET amounts == findall_amounts(line)
        two == Len(amounts) >= 2
        desc_part == WithoutAmounts(line, amounts)
    IN IF amounts # <<>>
       THEN [trans EXCEPT
               !.balance = parse_number(PyStr(amounts[Len(amounts)])),
               !.incoming = IF two /\ SecondAmount(amounts).field = "incoming" /\ @ = PyNone
                            THEN SecondAmount(amounts).value ELSE @,
               !.outgoing = IF two /\ SecondAmount(amounts).field = "outgoing" /\ @ = PyNone
                            THEN SecondAmount(amounts).value ELSE @,
               !.description = IF desc_part # "" THEN @ \o " " \o desc_part ELSE @]
       ELSE [trans EXCEPT !.description = @ \o " " \o line]

\* Lines 121-147: the pending record after a continuation line
Continued(trans, line) ==
    LET amounts == findall_amounts(line)
        two == Len(amounts) >= 2
        desc_part == WithoutAmounts(line, amounts)
    IN IF amounts # <<>>
       THEN [trans EXCEPT
               !.balance = parse_number(PyStr(amounts[Len(amounts)])),
               !.incoming = IF two /\ SecondAmount(amounts).field = "incoming"
                            THEN SecondAmount(amounts).value ELSE @,
               !.outgoing = IF two /\ SecondAmount(amounts).field = "outgoing"
                            THEN SecondAmount(amounts).value ELSE @,
               !.description = IF desc_part # "" THEN @ \o " " \o desc_part ELSE @]
       ELSE [trans EXCEPT !.description = @ \o " " \o line]

\* WithPending without the test of the description
WithPendingUnchecked(list, trans) ==
    IF trans # PyNone THEN Append(list, trans) ELSE list

\* Lines 72-73 and 150-151: the pending record is appended when it has a description
WithPending(list, trans) ==
    IF trans # PyNone /\ trans.description # "" THEN Append(list, trans) ELSE list

\* SignedAmount that falls back on the balance when neither value is positive
SignedAmountFromBalance(trans) ==
    LET incoming == IF trans.incoming = PyNone THEN Zero ELSE trans.incoming
        outgoing == IF trans.outgoing = PyNone THEN Zero ELSE trans.outgoing
    IN IF IsPositive(incoming) THEN incoming
       ELSE IF IsPositive(outgoing) THEN Neg(outgoing)
       ELSE IF trans.balance = PyNone THEN Zero ELSE trans.balance

\* Lines 158-168: the signed amount of a record
SignedAmount(trans) ==
    LET incoming == IF trans.incoming = PyNone THEN Zero ELSE trans.incoming
        outgoing == IF trans.outgoing = PyNone THEN Zero ELSE trans.outgoing
    IN IF IsPositive(incoming) THEN incoming
       ELSE IF IsPositive(outgoing) THEN Neg(outgoing)
       ELSE Zero

\* Lines 154-175: the rows of the result
RECURSIVE Rows(_)
Rows(list) ==
    IF list = <<>> THEN <<>>
    ELSE LET trans == Head(list)
             description == Strip(trans.description)
         IN (IF trans.Date # PyNone /\ description # ""
             THEN <<[Date |-> trans.Date, Detail |-> description,
                     Amount |-> SignedAmount(trans)]>>
             ELSE <<>>) \o Rows(Tail(list))

\* pd.DataFrame(result), pd.DataFrame(columns=[...]) when there are no rows,
\* and the pd.DataFrame() of the except clause
DataFrame(rows) == [columns |-> <<"Date", "Detail", "Amount">>, rows |-> rows]
EmptyDataFrame == [columns |-> <<>>, rows |-> <<>>]

-----------------------------------------------------------------------------
(* Regular expressions, matched as re matches them: by backtracking, the   *)
(* alternatives of a pattern tried in order, a greedy repetition trying    *)
(* one more round before stopping and a lazy one stopping first.           *)

Lit(s) == [k |-> "lit", s |-> s]
Cls(cs) == [k |-> "cls", cs |-> cs]
NotCls(cs) == [k |-> "ncls", cs |-> cs]
Cat(rs) == [k |-> "cat", rs |-> rs]
Alt(rs) == [k |-> "alt", rs |-> rs]
Rep(r, min, max, greedy) == [k |-> "rep", r |-> r, min |-> min, max |-> max, greedy |-> greedy]
Grp(n, r) == [k |-> "grp", n |-> n, r |-> r]
Eos == [k |-> "eos"]
Wb == [k |-> "wb"]

Unbounded == 0 - 1
Dot == NotCls({"\n"})
Ws0 == Rep(Cls(Whitespace), 0, Unbounded, TRUE)
Ws1 == Rep(Cls(Whitespace), 1, Unbounded, TRUE)
Opt(r) == Rep(r, 0, 1, TRUE)
Star(r) == Rep(r, 0, Unbounded, TRUE)
Plus(r) == Rep(r, 1, Unbounded, TRUE)

UpperClass == Chars(UpperLetters)
LowerClass == Chars(LowerLetters)
\* \w: the letters and digits of every script and the underscore
WordChars ==
    Letters \cup AsciiDigits \cup {"_"}
        \cup UNION {Chars(WordText[i]) : i \in 1..Len(WordText)}

\* A character beyond U+FFFF takes two places of a string here, a high half
\* and a low half. HighText holds one character for each high half a string
\* can hold, LowText one for each low half, both in the order of their codes.
HighText ==
       "𰂀𰒀𰢀𰲀𱂀𱒀𱢀𱲀𲂀𲒀𲢀𲲀𳂀𳒀𳢀𳲀𴂀𴒀𴢀𴲀𵂀𵒀𵢀𵲀𶂀𶒀𶢀𶲀𷂀𷒀𷢀𷲀"
    \o "𸂀𸒀𸢀𸲀𹂀𹒀𹢀𹲀𺂀𺒀𺢀𺲀𻂀𻒀𻢀𻲀𼂀𼒀𼢀𼲀𽂀𽒀𽢀𽲀𾂀𾒀𾢀𾲀𿂀𿒀𿢀𿲀"
    \o "񀂀񀒀񀢀񀲀񁂀񁒀񁢀񁲀񂂀񂒀񂢀񂲀񃂀񃒀񃢀񃲀񄂀񄒀񄢀񄲀񅂀񅒀񅢀񅲀񆂀񆒀񆢀񆲀񇂀񇒀񇢀񇲀"
    \o "񈂀񈒀񈢀񈲀񉂀񉒀񉢀񉲀񊂀񊒀񊢀񊲀񋂀񋒀񋢀񋲀񌂀񌒀񌢀񌲀񍂀񍒀񍢀񍲀񎂀񎒀񎢀񎲀񏂀񏒀񏢀񏲀"
    \o "񰂀񰒀񰢀񰲀񱂀񱒀񱢀񱲀񲂀񲒀񲢀񲲀񳂀񳒀񳢀񳲀񴂀񴒀񴢀񴲀񵂀񵒀񵢀񵲀񶂀񶒀񶢀񶲀񷂀񷒀񷢀񷲀"
    \o "񸂀񸒀񸢀񸲀񹂀񹒀񹢀񹲀񺂀񺒀񺢀񺲀񻂀񻒀񻢀񻲀񼂀񼒀񼢀񼲀񽂀񽒀񽢀񽲀񾂀񾒀񾢀񾲀񿂀񿒀񿢀񿲀"
    \o "򀂀򀒀򀢀򀲀򁂀򁒀򁢀򁲀򂂀򂒀򂢀򂲀򃂀򃒀򃢀򃲀򄂀򄒀򄢀򄲀򅂀򅒀򅢀򅲀򆂀򆒀򆢀򆲀򇂀򇒀򇢀򇲀"
    \o "򈂀򈒀򈢀򈲀򉂀򉒀򉢀򉲀򊂀򊒀򊢀򊲀򋂀򋒀򋢀򋲀򌂀򌒀򌢀򌲀򍂀򍒀򍢀򍲀򎂀򎒀򎢀򎲀򏂀򏒀򏢀򏲀"
    \o "򰂀򰒀򰢀򰲀򱂀򱒀򱢀򱲀򲂀򲒀򲢀򲲀򳂀򳒀򳢀򳲀򴂀򴒀򴢀򴲀򵂀򵒀򵢀򵲀򶂀򶒀򶢀򶲀򷂀򷒀򷢀򷲀"
    \o "򸂀򸒀򸢀򸲀򹂀򹒀򹢀򹲀򺂀򺒀򺢀򺲀򻂀򻒀򻢀򻲀򼂀򼒀򼢀򼲀򽂀򽒀򽢀򽲀򾂀򾒀򾢀򾲀򿂀򿒀򿢀򿲀"
    \o "󀂀󀒀󀢀󀲀󁂀󁒀󁢀󁲀󂂀󂒀󂢀󂲀󃂀󃒀󃢀󃲀󄂀󄒀󄢀󄲀󅂀󅒀󅢀󅲀󆂀󆒀󆢀󆲀󇂀󇒀󇢀󇲀"
    \o "󈂀󈒀󈢀󈲀󉂀󉒀󉢀󉲀󊂀󊒀󊢀󊲀󋂀󋒀󋢀󋲀󌂀󌒀󌢀󌲀󍂀󍒀󍢀󍲀󎂀󎒀󎢀󎲀󏂀󏒀󏢀󏲀"
    \o "󰂀󰒀󰢀󰲀󱂀󱒀󱢀󱲀󲂀󲒀󲢀󲲀󳂀󳒀󳢀󳲀󴂀󴒀󴢀󴲀󵂀󵒀󵢀󵲀󶂀󶒀󶢀󶲀󷂀󷒀󷢀󷲀"
    \o "󸂀󸒀󸢀󸲀󹂀󹒀󹢀󹲀󺂀󺒀󺢀󺲀󻂀󻒀󻢀󻲀󼂀󼒀󼢀󼲀󽂀󽒀󽢀󽲀󾂀󾒀󾢀󾲀󿂀󿒀󿢀󿲀"
    \o "􀂀􀒀􀢀􀲀􁂀􁒀􁢀􁲀􂂀􂒀􂢀􂲀􃂀􃒀􃢀􃲀􄂀􄒀􄢀􄲀􅂀􅒀􅢀􅲀􆂀􆒀􆢀􆲀􇂀􇒀􇢀􇲀"
    \o "􈂀􈒀􈢀􈲀􉂀􉒀􉢀􉲀􊂀􊒀􊢀􊲀􋂀􋒀􋢀􋲀􌂀􌒀􌢀􌲀􍂀􍒀􍢀􍲀􎂀􎒀􎢀􎲀􏂀􏒀􏢀􏲀"
LowText ==
       "𰂀𰂁𰂂𰂃𰂄𰂅𰂆𰂇𰂈𰂉𰂊𰂋𰂌𰂍𰂎𰂏𰂐𰂑𰂒𰂓𰂔𰂕𰂖𰂗𰂘𰂙𰂚𰂛𰂜𰂝𰂞𰂟"
    \o "𰂠𰂡𰂢𰂣𰂤𰂥𰂦𰂧𰂨𰂩𰂪𰂫𰂬𰂭𰂮𰂯𰂰𰂱𰂲𰂳𰂴𰂵𰂶𰂷𰂸𰂹𰂺𰂻𰂼𰂽𰂾𰂿"
    \o "𰃀𰃁𰃂𰃃𰃄𰃅𰃆𰃇𰃈𰃉𰃊𰃋𰃌𰃍𰃎𰃏𰃐𰃑𰃒𰃓𰃔𰃕𰃖𰃗𰃘𰃙𰃚𰃛𰃜𰃝𰃞𰃟"
    \o "𰃠𰃡𰃢𰃣𰃤𰃥𰃦𰃧𰃨𰃩𰃪𰃫𰃬𰃭𰃮𰃯𰃰𰃱𰃲𰃳𰃴𰃵𰃶𰃷𰃸𰃹𰃺𰃻𰃼𰃽𰃾𰃿"
    \o "𰆀𰆁𰆂𰆃𰆄𰆅𰆆𰆇𰆈𰆉𰆊𰆋𰆌𰆍𰆎𰆏𰆐𰆑𰆒𰆓𰆔𰆕𰆖𰆗𰆘𰆙𰆚𰆛𰆜𰆝𰆞𰆟"
    \o "𰆠𰆡𰆢𰆣𰆤𰆥𰆦𰆧𰆨𰆩𰆪𰆫𰆬𰆭𰆮𰆯𰆰𰆱𰆲𰆳𰆴𰆵𰆶𰆷𰆸𰆹𰆺𰆻𰆼𰆽𰆾𰆿"
    \o "𰇀𰇁𰇂𰇃𰇄𰇅𰇆𰇇𰇈𰇉𰇊𰇋𰇌𰇍𰇎𰇏𰇐𰇑𰇒𰇓𰇔𰇕𰇖𰇗𰇘𰇙𰇚𰇛𰇜𰇝𰇞𰇟"
    \o "𰇠𰇡𰇢𰇣𰇤𰇥𰇦𰇧𰇨𰇩𰇪𰇫𰇬𰇭𰇮𰇯𰇰𰇱𰇲𰇳𰇴𰇵𰇶𰇷𰇸𰇹𰇺𰇻𰇼𰇽𰇾𰇿"
    \o "𰊀𰊁𰊂𰊃𰊄𰊅𰊆𰊇𰊈𰊉𰊊𰊋𰊌𰊍𰊎𰊏𰊐𰊑𰊒𰊓𰊔𰊕𰊖𰊗𰊘𰊙𰊚𰊛𰊜𰊝𰊞𰊟"
    \o "𰊠𰊡𰊢𰊣𰊤𰊥𰊦𰊧𰊨𰊩𰊪𰊫𰊬𰊭𰊮𰊯𰊰𰊱𰊲𰊳𰊴𰊵𰊶𰊷𰊸𰊹𰊺𰊻𰊼𰊽𰊾𰊿"
    \o "𰋀𰋁𰋂𰋃𰋄𰋅𰋆𰋇𰋈𰋉𰋊𰋋𰋌𰋍𰋎𰋏𰋐𰋑𰋒𰋓𰋔𰋕𰋖𰋗𰋘𰋙𰋚𰋛𰋜𰋝𰋞𰋟"
    \o "𰋠𰋡𰋢𰋣𰋤𰋥𰋦𰋧𰋨𰋩𰋪𰋫𰋬𰋭𰋮𰋯𰋰𰋱𰋲𰋳𰋴𰋵𰋶𰋷𰋸𰋹𰋺𰋻𰋼𰋽𰋾𰋿"
    \o "𰎀𰎁𰎂𰎃𰎄𰎅𰎆𰎇𰎈𰎉𰎊𰎋𰎌𰎍𰎎𰎏𰎐𰎑𰎒𰎓𰎔𰎕𰎖𰎗𰎘𰎙𰎚𰎛𰎜𰎝𰎞𰎟"
    \o "𰎠𰎡𰎢𰎣𰎤𰎥𰎦𰎧𰎨𰎩𰎪𰎫𰎬𰎭𰎮𰎯𰎰𰎱𰎲𰎳𰎴𰎵𰎶𰎷𰎸𰎹𰎺𰎻𰎼𰎽𰎾𰎿"
    \o "𰏀𰏁𰏂𰏃𰏄𰏅𰏆𰏇𰏈𰏉𰏊𰏋𰏌𰏍𰏎𰏏𰏐𰏑𰏒𰏓𰏔𰏕𰏖𰏗𰏘𰏙𰏚𰏛𰏜𰏝𰏞𰏟"
    \o "𰏠𰏡𰏢𰏣𰏤𰏥𰏦𰏧𰏨𰏩𰏪𰏫𰏬𰏭𰏮𰏯𰏰𰏱𰏲𰏳𰏴𰏵𰏶𰏷𰏸𰏹𰏺𰏻𰏼𰏽𰏾𰏿"
HighUnits == {At(HighText, 2 * i - 1) : i \in 1..(Len(HighText) \div 2)}
LowUnits == {At(LowText, 2 * i) : i \in 1..(Len(LowText) \div 2)}

\* The two halves of one character at places i and i + 1 of t
IsPairAt(t, i) ==
    i >= 1 /\ i < Len(t) /\ At(t, i) \in HighUnits /\ At(t, i + 1) \in LowUnits

\* len(t): a character of two halves counts once
CharCount(t) == Len(t) - Cardinality({i \in 1..(Len(t) - 1) : IsPairAt(t, i)})

\* t[:n] for a text of more than n characters
FirstChars(t, n) ==
    Take(t, CHOOSE j \in n..Len(t) :
                /\ j - Cardinality({i \in 1..(j - 1) : IsPairAt(t, i)}) = n
                /\ ~IsPairAt(t, j))

\* The characters beyond U+FFFF that \w matches, of those a string here can
\* hold: the ideographs U+30000-U+3134A, whose high half is one of the first
\* four of HighText, or the fifth with a low half up to that of U+312FF
WordHighs == {At(HighText, 2 * i - 1) : i \in 1..4}
LastWordHigh == At(HighText, 9)
LastWordLows == {At(LowText, 2 * i) : i \in 1..384}
IsWordPair(high, low) == high \in WordHighs \/ (high = LastWordHigh /\ low \in LastWordLows)

\* \w at the i-th place of t, FALSE off either end: a character of WordChars,
\* or either half of a character beyond U+FFFF that \w matches
IsWordAt(t, i) ==
    /\ i >= 1 /\ i <= Len(t)
    /\ \/ At(t, i) \in WordChars
       \/ IsPairAt(t, i) /\ IsWordPair(At(t, i), At(t, i + 1))
       \/ IsPairAt(t, i - 1) /\ IsWordPair(At(t, i - 1), At(t, i))

\* A position of the matcher: the characters consumed, the spans of groups 1 and 2
NoGroup == <<>>
Position(pos) == [pos |-> pos, groups |-> <<NoGroup, NoGroup>>]

\* The number of characters after the first pos of t that a one-character
\* pattern matches one after the other
Run(re, t, pos) ==
    LET stops == {j \in 1..(Len(t) - pos) : (At(t, pos + j) \in re.cs) # (re.k = "cls")}
    IN IF stops = {} THEN Len(t) - pos
       ELSE (CHOOSE j \in stops : \A k \in stops : j <= k) - 1

\* The ways a pattern matches t from a position, in the order a backtracking
\* matcher tries them: the first is the match re reports
RECURSIVE Paths(_, _, _)
RECURSIVE PathsFrom(_, _, _)
RECURSIVE PathsCat(_, _, _)
RECURSIVE PathsAlt(_, _, _)
RECURSIVE PathsRep(_, _, _, _)
RECURSIVE PathsRepFrom(_, _, _, _)

\* A repetition of a one-character pattern: the longest run first when
\* greedy, the shortest first when lazy
PathsRun(re, t, st) ==
    LET run == Run(re.r, t, st.pos)
        most == IF re.max # Unbounded /\ run > re.max THEN re.max ELSE run
        ways == most - re.min + 1
    IN IF ways <= 0 THEN <<>>
       ELSE [i \in 1..ways |->
                [st EXCEPT !.pos = IF re.greedy THEN @ + most - i + 1 ELSE @ + re.min + i - 1]]

Grouped(sts, n, start) ==
    IF sts = <<>> THEN <<>>
    ELSE [i \in 1..Len(sts) |-> [sts[i] EXCEPT !.groups[n] = <<start, sts[i].pos>>]]

Paths(re, t, st) ==
    CASE re.k = "lit" ->
             IF MatchAt(t, re.s, st.pos + 1)
             THEN <<[st EXCEPT !.pos = @ + Len(re.s)]>> ELSE <<>>
      [] re.k = "cls" ->
             IF st.pos < Len(t) /\ At(t, st.pos + 1) \in re.cs
             THEN <<[st EXCEPT !.pos = @ + 1]>> ELSE <<>>
      [] re.k = "ncls" ->
             IF st.pos < Len(t) /\ At(t, st.pos + 1) \notin re.cs
             THEN <<[st EXCEPT !.pos = @ + 1]>> ELSE <<>>
      [] re.k = "cat" -> PathsCat(re.rs, t, <<st>>)
      [] re.k = "alt" -> PathsAlt(re.rs, t, st)
      [] re.k = "rep" ->
             IF re.r.k \in {"cls", "ncls"} THEN PathsRun(re, t, st)
             ELSE PathsRep(re, t, st, 0)
      [] re.k = "grp" -> Grouped(Paths(re.r, t, st), re.n, st.pos)
      [] re.k = "eos" -> IF \/ st.pos = Len(t)
                               \/ (st.pos = Len(t) - 1 /\ At(t, Len(t)) = "\n")
                            THEN <<st>> ELSE <<>>
      [] re.k = "wb" ->
             IF IsWordAt(t, st.pos) # IsWordAt(t, st.pos + 1) THEN <<st>> ELSE <<>>

\* The ways from each of several positions, in their order
PathsFrom(re, t, sts) ==
    IF sts = <<>> THEN <<>>
    ELSE IF Len(sts) = 1 THEN Paths(re, t, sts[1])
    ELSE PathsFrom(re, t, SubSeq(sts, 1, Len(sts) \div 2))
             \o PathsFrom(re, t, SubSeq(sts, Len(sts) \div 2 + 1, Len(sts)))

PathsCat(rs, t, sts) ==
    IF rs = <<>> \/ sts = <<>> THEN sts
    ELSE PathsCat(Tail(rs), t, PathsFrom(Head(rs), t, sts))

PathsAlt(rs, t, st) ==
    IF rs = <<>> THEN <<>>
    ELSE Paths(Head(rs), t, st) \o PathsAlt(Tail(rs), t, st)

\* After n rounds of a repetition; a round consumes at least one character
PathsRep(re, t, st, n) ==
    LET stop == IF n >= re.min THEN <<st>> ELSE <<>>
        more == IF re.max # Unbounded /\ n >= re.max THEN <<>>
                ELSE PathsRepFrom(re, t, Paths(re.r, t, st), n + 1)
    IN IF re.greedy THEN more \o stop ELSE stop \o more

PathsRepFrom(re, t, sts, n) ==
    IF sts = <<>> THEN <<>>
    ELSE PathsRep(re, t, Head(sts), n) \o PathsRepFrom(re, t, Tail(sts), n)

\* The match at the leftmost start that has a way, given the ways from each
\* start, or NoMatch
Leftmost(ways) ==
    LET starts == {i \in DOMAIN ways : ways[i] # <<>>}
        start == CHOOSE i \in starts : \A j \in starts : i <= j
    IN IF starts = {} THEN NoMatch
       ELSE [type |-> "match", start |-> start, end |-> ways[start][1].pos,
             groups |-> ways[start][1].groups]

\* The leftmost match of a pattern in t at or after an offset, or NoMatch
SearchFrom(re, t, from) == Leftmost([i \in from..Len(t) |-> Paths(re, t, Position(i))])

\* The text a pattern is matched against: with re.IGNORECASE the patterns
\* below are written in lower case and matched against the lower-cased text
Folded(string, ignorecase) == IF ignorecase THEN Lowered(string) ELSE string

\* re.search(pattern, string, flags)
re_search(pattern, string, ignorecase) == SearchFrom(pattern, Folded(string, ignorecase), 0)

\* match[0] and match[n] of a match in string
Group0(match, string) == SubSeq(string, match.start + 1, match.end)
Group(match, string, n) == SubSeq(string, match.groups[n][1] + 1, match.groups[n][2])

\* re.sub(pattern, repl, string, flags) for a pattern that matches no empty text
RECURSIVE SubFrom(_, _, _, _, _)

\* The text from an offset on with the next match, and every later one, replaced
Replaced(pattern, repl, string, t, from, match) ==
    IF match = NoMatch \/ match.end = match.start THEN Drop(string, from)
    ELSE SubSeq(string, from + 1, match.start) \o repl
             \o SubFrom(pattern, repl, string, t, match.end)

SubFrom(pattern, repl, string, t, from) ==
    Replaced(pattern, repl, string, t, from, SearchFrom(pattern, t, from))

re_sub(pattern, repl, string, ignorecase) ==
    SubFrom(pattern, repl, string, Folded(string, ignorecase), 0)

\* re.split(pattern, string, flags)[0]
Before(match, string) == IF match = NoMatch THEN string ELSE Take(string, match.start)

re_split_first(pattern, string, ignorecase) ==
    Before(re_search(pattern, string, ignorecase), string)

\* str.split(): the words between runs of whitespace
RECURSIVE WordLen(_)
WordLen(s) == IF s # "" /\ Head(s) \notin Whitespace THEN 1 + WordLen(Tail(s)) ELSE 0

RECURSIVE split(_)
split(s) ==
    LET body == LStrip(s, Whitespace)
    IN IF body = "" THEN <<>>
       ELSE <<Take(body, WordLen(body))>> \o split(Drop(body, WordLen(body)))

\* sep.join(words)
RECURSIVE join(_, _)
join(sep, words) ==
    IF words = <<>> THEN ""
    ELSE IF Len(words) = 1 THEN words[1]
    ELSE words[1] \o sep \o join(sep, Tail(words))

-----------------------------------------------------------------------------
(* extract_invoice, extract_counterparty, capitalize_first, limit_length   *)

\* (invoice|inv|fatt(?:ura)?\s*nr?)\s*([0-9]+)
InvoicePattern ==
    Cat(<<Grp(1, Alt(<<Lit("invoice"), Lit("inv"),
                       Cat(<<Lit("fatt"), Opt(Lit("ura")), Ws0, Lit("n"), Opt(Lit("r"))>>)>>)),
          Ws0, Grp(2, Plus(Cls(AsciiDigits)))>>)

extract_invoice(detail) ==
    LET match == re_search(InvoicePattern, detail, TRUE)
    IN IF detail = "" THEN ""
       ELSE IF match # NoMatch THEN "invoice " \o Group(match, detail, 2)
       ELSE ""

\* sent money to\s+(.+?)(?:\s+transaction:|$) with a greedy group
SentMoneyToGreedy ==
    Cat(<<Lit("sent money to"), Ws1, Grp(1, Plus(Dot)),
          Alt(<<Cat(<<Ws1, Lit("transaction:")>>), Eos>>)>>)

\* sent money to\s+(.+?)(?:\s+transaction:|$)
SentMoneyTo ==
    Cat(<<Lit("sent money to"), Ws1, Grp(1, Rep(Dot, 1, Unbounded, FALSE)),
          Alt(<<Cat(<<Ws1, Lit("transaction:")>>), Eos>>)>>)

\* received money from\s+(.+?)(?:\s+with reference|transaction:|$)
ReceivedMoneyFrom ==
    Cat(<<Lit("received money from"), Ws1, Grp(1, Rep(Dot, 1, Unbounded, FALSE)),
          Alt(<<Cat(<<Ws1, Lit("with reference")>>), Lit("transaction:"), Eos>>)>>)

\* issued by\s+(.+?)(?:\s+card ending|transaction:|$)
IssuedBy ==
    Cat(<<Lit("issued by"), Ws1, Grp(1, Rep(Dot, 1, Unbounded, FALSE)),
          Alt(<<Cat(<<Ws1, Lit("card ending")>>), Lit("transaction:"), Eos>>)>>)

\* ADMINISTRATIO\s+([0-9]+)
TaxReference == Cat(<<Lit("administratio"), Ws1, Grp(1, Plus(Cls(AsciiDigits)))>>)

\* Lines 287-314
patterns_to_remove ==
    <<Cat(<<Lit("24x7"), Ws0, Lit("pay"), Ws0, Lit("third"), Ws0, Lit("parties")>>),
      Cat(<<Lit("24x7"), Ws0, Lit("pay")>>),
      Cat(<<Lit("third"), Ws0, Lit("parties")>>),
      Lit("payment order outwards same day"),
      Lit("payment order outwards"),
      Lit("account to account transfer express deposits"),
      Lit("account to account transfer"),
      Lit("transfer between own accounts"),
      Lit("sct instant payments inwards"),
      Lit("sct inwards"),
      Lit("sct outwards"),
      Lit("standing instruction charge"),
      Lit("standing instruction"),
      Lit("administration fee"),
      Lit("unprocessed standing instruction charge"),
      Lit("sdd outwards fee"),
      Lit("atm cash deposit"),
      Cat(<<Lit("cheque deposit"), Star(Dot), Eos>>),
      Cat(<<Lit("cheque returned fee"), Star(Dot), Eos>>),
      Cat(<<Lit("cheque book order fee"), Star(Dot), Eos>>),
      Cat(<<Lit("cheque"), Ws1, Plus(Cls(Digits)), Star(Dot)>>),
      Cat(<<Lit("relation:"), Ws0, Plus(NotCls({","}))>>),
      Cat(<<Lit("reason:"), Ws0, Plus(NotCls({","}))>>),
      Cat(<<Lit("value date"), Ws0, Lit("-"), Ws0, Plus(Cls(AsciiDigits \cup {"/"}))>>),
      Cat(<<Lit("ref"), Ws0, Lit(":"), Ws0, Plus(Cls(AsciiDigits \cup LowerClass \cup {"-", "."})),
            Star(Dot), Eos>>),
      Cat(<<Ws1, Lit("eur"), Ws1, Plus(Cls(AsciiDigits \cup {".", ","}))>>)>>

\* Lines 316-317: every pattern removed in turn
RECURSIVE Removed(_, _)
Removed(patterns, cleaned) ==
    IF patterns = <<>> \/ cleaned = "" THEN cleaned
    ELSE Removed(Tail(patterns), re_sub(Head(patterns), "", cleaned, TRUE))

\* ref\s*:|value date|relation:
Delimiters ==
    Alt(<<Cat(<<Lit("ref"), Ws0, Lit(":")>>), Lit("value date"), Lit("relation:")>>)

\* Lines 286-322: the cleaned text
Cleaned(detail) ==
    Strip(re_split_first(Delimiters,
                         Strip(re_sub(Ws1, " ", Removed(patterns_to_remove, detail), FALSE)),
                         TRUE))

NameChars == {" ", "&", ".", "'", "-"}

\* \b([A-Z][A-Za-z &.\'-]*\s(?:ltd|limited|plc|co|company))\b
CompanySuffix ==
    Cat(<<Wb,
          Grp(1, Cat(<<Cls(LowerClass), Star(Cls(LowerClass \cup NameChars)), Cls(Whitespace),
                       Alt(<<Lit("ltd"), Lit("limited"), Lit("plc"), Lit("co"),
                             Lit("company")>>)>>)),
          Wb>>)

\* \s+eur\s+
EurAmount == Cat(<<Ws1, Lit("eur"), Ws1>>)

CapitalizedWord == Cat(<<Cls(UpperClass), Plus(Cls(LowerClass))>>)

\* \b(Mr|Ms|Mrs|Dr)\.?\s+[A-Z][a-z]+(?:\s+[A-Z][a-z]+)?\b
PersonTitle ==
    Cat(<<Wb, Grp(1, Alt(<<Lit("Mr"), Lit("Ms"), Lit("Mrs"), Lit("Dr")>>)), Opt(Lit(".")),
          Ws1, CapitalizedWord, Opt(Cat(<<Ws1, CapitalizedWord>>)), Wb>>)

\* \b([A-Z][A-Z &.\'-]{2,})\b
UppercaseSequence ==
    Cat(<<Wb, Grp(1, Cat(<<Cls(UpperClass),
                           Rep(Cls(UpperClass \cup NameChars), 2, Unbounded, TRUE)>>)),
          Wb>>)

\* \b([A-Z][a-z]+(?:\s+[A-Z][a-z]+){1,4})\b
CapitalizedSequence ==
    Cat(<<Wb, Grp(1, Cat(<<CapitalizedWord,
                           Rep(Cat(<<Ws1, CapitalizedWord>>), 1, 4, TRUE)>>)),
          Wb>>)

\* Lines 329-332: the text before an EUR amount, when it has three characters or more
IfThreeOrMore(eur_split, cleaned) ==
    IF eur_split # "" /\ CharCount(eur_split) >= 3 THEN eur_split ELSE cleaned

BeforeEur(cleaned) == IfThreeOrMore(Strip(re_split_first(EurAmount, cleaned, TRUE)), cleaned)

\* Lines 349-351
FirstWords(cleaned) ==
    LET words == split(cleaned)
    IN Strip(join(" ", IF Len(words) > 5 THEN SubSeq(words, 1, 5) ELSE words))

\* Lines 334-351: a person, an uppercase sequence, a capitalized sequence, or
\* the first five words of the text left after the EUR split
FromName(cleaned) ==
    LET person_match == re_search(PersonTitle, cleaned, FALSE)
        upper_match == re_search(UppercaseSequence, cleaned, FALSE)
        cap_match == re_search(CapitalizedSequence, cleaned, FALSE)
    IN IF person_match # NoMatch THEN Group0(person_match, cleaned)
       ELSE IF upper_match # NoMatch THEN Group(upper_match, cleaned, 1)
       ELSE IF cap_match # NoMatch THEN Group(cap_match, cleaned, 1)
       ELSE FirstWords(cleaned)

\* Lines 324-351: the company of the cleaned text, or what its name part gives
FromCompany(cleaned) ==
    LET company_match == re_search(CompanySuffix, cleaned, TRUE)
    IN IF company_match # NoMatch THEN Group(company_match, cleaned, 1)
       ELSE FromName(BeforeEur(cleaned))

\* Lines 285-351: the result when no structural pattern and no tax reference matched
FromCleaned(detail) == FromCompany(Cleaned(detail))

extract_counterparty(detail) ==
    LET sent == re_search(SentMoneyTo, detail, TRUE)
        received == re_search(ReceivedMoneyFrom, detail, TRUE)
        issued == re_search(IssuedBy, detail, TRUE)
        tax_ref == re_search(TaxReference, detail, TRUE)
    IN IF detail = "" THEN ""
       ELSE IF sent # NoMatch THEN Strip(Group(sent, detail, 1))
       ELSE IF received # NoMatch THEN Strip(Group(received, detail, 1))
       ELSE IF issued # NoMatch THEN Strip(Group(issued, detail, 1))
       ELSE IF Contains(Lowered(detail), "administratio") /\ tax_ref # NoMatch
            THEN Group(tax_ref, detail, 1)
       ELSE FromCleaned(detail)

max_len == 26

\* text[0].upper() + text[1:].lower()
capitalize_first(text) ==
    IF text = "" THEN "" ELSE Upper(Take(text, 1)) \o Lower(Drop(text, 1))

\* limit_length that cuts nothing
limit_length_uncut(text) == text

\* text[:max_len] if len(text) > max_len else text
limit_length(text) ==
    IF text = "" THEN ""
    ELSE IF Len(text) > max_len /\ CharCount(text) > max_len THEN FirstChars(text, max_len)
    ELSE text

-----------------------------------------------------------------------------
(* process_transactions                                                    *)

\* df[df['Amount'] >= 0] and df[df['Amount'] < 0]; nan is neither
Incoming(rows) ==
    SelectSeq(rows, LAMBDA row : row.Amount # NaN /\ ~IsNegative(row.Amount))
Outgoing(rows) == SelectSeq(rows, LAMBDA row : IsNegative(row.Amount))

\* int(x) if str(x).isdigit() else x; int() raises ValueError on a digit
\* that is not a decimal digit
NumberIfDigits(x) ==
    IF x # "" /\ AllIn(x, Digits \cup OtherDigits)
    THEN (IF AllIn(x, Digits) THEN PyInt(IntOf(x)) ELSE ValueError)
    ELSE PyStr(x)

\* Lines 206-220: the three derived columns of a description
Derived(Detail) ==
    [Type |-> PyStr(limit_length(capitalize_first(
                  get_transaction_type(PyStr(Lowered(Detail))).s))),
     Invoice |-> PyStr(limit_length(capitalize_first(extract_invoice(Detail)))),
     Counterparty |-> NumberIfDigits(limit_length(capitalize_first(
                          extract_counterparty(Detail))))]

\* A DataFrame of three columns, and one with the derived columns added
Frame(rows) == [columns |-> <<"Date", "Detail", "Amount">>, rows |-> rows]
Categorised(rows) ==
    [columns |-> <<"Date", "Detail", "Amount", "Type", "Invoice", "Counterparty">>,
     rows |-> rows]

\* The order of two dates: by the day, then by the time of day (a datetime
\* made of year, month and day is at midnight)
DayKey(date) == date.year * 10000 + date.month * 100 + date.day
TimeKey(date) ==
    IF date.type = "Timestamp" THEN date.hour * 3600 + date.minute * 60 + date.second ELSE 0
Earlier(a, b) ==
    DayKey(a) < DayKey(b) \/ (DayKey(a) = DayKey(b) /\ TimeKey(a) < TimeKey(b))

\* The key argsort compares for row i. The column holds each date as a count
\* of nanoseconds; the number of rows of an earlier date stands for it, two
\* rows comparing just as their dates do.
DateKey(rows, i) == Cardinality({j \in 1..Len(rows) : Earlier(rows[j].Date, rows[i].Date)})

\* sort_values('Date') orders the rows by numpy's argsort of the Date column
\* with the default kind, 'quicksort' (numpy/_core/src/npysort/quicksort.cpp,
\* aquicksort_ on datetime64): order holds the places of the rows, keys the
\* date of each row, and pl..pr is the part being sorted.
SMALL_QUICKSORT == 16

Swapped(order, i, j) == [order EXCEPT ![i] = order[j], ![j] = order[i]]

\* if (v[*i] < v[*j]) INTP_SWAP(*i, *j)
SwappedIfLess(keys, order, i, j) ==
    IF keys[order[i]] < keys[order[j]] THEN Swapped(order, i, j) ELSE order

\* The insertion sort of a short part: the entry at pi moves left past the
\* entries of a later date, and past no entry of its own date
MovedLeft(order, place, pi) ==
    [k \in 1..Len(order) |->
        IF k = place THEN order[pi]
        ELSE IF k > place /\ k <= pi THEN order[k - 1]
        ELSE order[k]]

InsertionPlace(keys, order, pl, pi) ==
    CHOOSE pj \in pl..pi :
        /\ \A pk \in pj..(pi - 1) : keys[order[pi]] < keys[order[pk]]
        /\ pj = pl \/ ~(keys[order[pi]] < keys[order[pj - 1]])

RECURSIVE InsertionSorted(_, _, _, _, _)
InsertionSorted(keys, order, pl, pi, pr) ==
    IF pi > pr THEN order
    ELSE InsertionSorted(keys, MovedLeft(order, InsertionPlace(keys, order, pl, pi), pi),
                         pl, pi + 1, pr)

\* The median of three: the dates at pl, pm and pr put in order
MedianOfThree(keys, order, pl, pm, pr) ==
    SwappedIfLess(keys,
        SwappedIfLess(keys, SwappedIfLess(keys, order, pm, pl), pr, pm), pm, pl)

\* do { ++pi; } while (v[*pi] < vp);  do { --pj; } while (vp < v[*pj]);
ScanUp(keys, order, pi, vp) ==
    CHOOSE k \in (pi + 1)..Len(order) :
        /\ ~(keys[order[k]] < vp)
        /\ \A j \in (pi + 1)..(k - 1) : keys[order[j]] < vp
ScanDown(keys, order, pj, vp) ==
    CHOOSE k \in 1..(pj - 1) :
        /\ ~(vp < keys[order[k]])
        /\ \A j \in (k + 1)..(pj - 1) : vp < keys[order[j]]

\* The partition loop: the two scans stop at entries of the pivot's date as
\* well, and those are swapped
RECURSIVE Partitioned(_, _, _, _, _)
Crossed(keys, order, pi, pj, vp) ==
    IF pi >= pj THEN [order |-> order, pi |-> pi]
    ELSE Partitioned(keys, Swapped(order, pi, pj), pi, pj, vp)
Partitioned(keys, order, pi, pj, vp) ==
    Crossed(keys, order, ScanUp(keys, order, pi, vp), ScanDown(keys, order, pj, vp), vp)

\* The pivot goes to pr - 1 before the loop and to its place after it
PivotPlaced(parts, pr) ==
    [order |-> Swapped(parts.order, parts.pi, pr - 1), pi |-> parts.pi]
Split(keys, order, pl, pm, pr) ==
    PivotPlaced(Partitioned(keys, Swapped(order, pm, pr - 1), pl, pr - 1,
                            keys[order[pm]]), pr)

\* A part of more than SMALL_QUICKSORT + 1 entries is split and its two sides
\* are sorted in turn. The switch to heapsort comes after 2 * floor(log2 n)
\* nested splits; parts of up to LongRows entries are split three times at most.
RECURSIVE aquicksort(_, _, _, _)
BothSides(keys, parts, pl, pr) ==
    aquicksort(keys, aquicksort(keys, parts.order, pl, parts.pi - 1), parts.pi + 1, pr)
aquicksort(keys, order, pl, pr) ==
    IF pr - pl > SMALL_QUICKSORT
    THEN BothSides(keys,
                   Split(keys, MedianOfThree(keys, order, pl, pl + (pr - pl) \div 2, pr),
                         pl, pl + (pr - pl) \div 2, pr),
                   pl, pr)
    ELSE InsertionSorted(keys, order, pl, pl + 1, pr)

argsort(keys) == aquicksort(keys, [i \in 1..Len(keys) |-> i], 1, Len(keys))

\* Lines 223-224: sort_values('Date').reset_index(drop=True)
Taken(rows, order) == [i \in 1..Len(rows) |-> rows[order[i]]]
sort_values(rows) ==
    IF rows = <<>> THEN <<>>
    ELSE Taken(rows, argsort([i \in 1..Len(rows) |-> DateKey(rows, i)]))

-----------------------------------------------------------------------------
(* The state of the parts a specification does not exercise.               *)

NoCall == arg = PyNone /\ origin = PyNone /\ ret = Pending
NoLoop ==
    /\ lines = <<>>
    /\ in_transactions = FALSE
    /\ current_transaction = PyNone
    /\ transactions = <<>>
    /\ result = Pending

loopVars == <<lines, in_transactions, current_transaction, transactions, result>>

NoBatch ==
    /\ successful = 0
    /\ failed = 0
    /\ output_files = <<>>
    /\ handled = 0
    /\ workbooks = <<>>

batchVars == <<successful, failed, output_files, handled, workbooks>>

-----------------------------------------------------------------------------
(* SpecNumber: parse_number applied to every short amount text.            *)

NumberAlphabet == {"0", "5", ",", ".", "-", "(", ")", "$", " ", "\n", "\"", "a"}

ExampleAmounts ==
    {"(123.45)", "-123.45", "123.45-", "1.234,56", "1,234.56", "$1,234.56", "abc",
     "12,5", "1234,56", "1,234", "1,234,567", "(123.45-", "-123.45-", "\" -5\"",
     "€1,234.56", "£5", "\t12\n", "1e3", "1_0", "inf", "nan", "(nan)", "-Infinity",
     "۱۲.۵", "1 2", "(5) ", "2e308", "-1.8e308", "3e-324",
     "(1\n2)", "\"(5)\n\""}

NumberArgs ==
    {PyStr(s) : s \in StringsUpTo(NumberAlphabet, MaxNumLen) \cup ExampleAmounts}
        \cup {PyNone, PyInt(7), PyFloat(0 - 1250, 2)}

InitNumber ==
    /\ arg \in NumberArgs
    /\ origin = PyNone
    /\ ret = Pending
    /\ NoLoop
    /\ NoBatch
    /\ pc = "call"

CallParseNumber ==
    /\ pc = "call"
    /\ ret' = parse_number(arg)
    /\ pc' = "parse_number"
    /\ UNCHANGED <<arg, origin, loopVars, batchVars>>

NextNumber == CallParseNumber

SpecNumber == InitNumber /\ [][NextNumber]_vars

-----------------------------------------------------------------------------
(* Claims about parse_number, checked under SpecNumber.                    *)

HasDigit(s) == \E i \in 1..Len(s) : At(s, i) \in Digits

\* An argument that holds no number at all: not a string, or a string
\* without any digit.
HoldsNoNumber(v) == v.type # "str" \/ ~HasDigit(v.s)

\* C4: parse_number returns a number for every argument (a string, the empty
\* string, None, a non-string value) and never raises, and an argument that
\* holds no numeric literal, such as "abc", yields exactly 0.0.
C4_ParseNumberTotal ==
    pc = "parse_number" =>
        /\ IsFloat(ret) /\ ret # NaN
        /\ HoldsNoNumber(arg) => ret = Zero
        /\ arg = PyStr("abc") => ret = Zero

\* The magnitude parse_number reads in a trimmed text, or ValueError
Magnitude(t) == float(SeparatorsResolved(Unsigned(t)))

\* C5: for an amount text with a non-zero magnitude m the result is -m when
\* the trimmed text is wholly parenthesized, ends with '-' or starts with '-',
\* and +m otherwise; two cues do not cancel, and "(123.45)", "-123.45" and
\* "123.45-" all yield -123.45.
C5_SignRule ==
    (pc = "parse_number" /\ arg.type = "str") =>
        LET t == Trimmed(arg.s)
            m == Magnitude(t)
            first == IF t = "" THEN "" ELSE At(t, 1)
            last == IF t = "" THEN "" ELSE At(t, Len(t))
            cue == (first = "(" /\ last = ")") \/ last = "-" \/ first = "-"
        IN /\ (m # ValueError /\ m # Zero) => ret = (IF cue THEN Neg(m) ELSE m)
           /\ arg.s \in {"(123.45)", "-123.45", "123.45-"} => ret = PyFloat(0 - 12345, 2)

C5_Witness == pc = "parse_number" /\ arg = PyStr("-5-") /\ ret = PyFloat(0 - 5, 0)

\* C6: when the amount text holds both ',' and '.', the separator that occurs
\* last is the decimal point and every occurrence of the other is removed, so
\* "1.234,56" and "1,234.56" both yield 1234.56.
C6_LastSeparatorIsDecimal ==
    (pc = "parse_number" /\ arg.type = "str") =>
        LET u == Unsigned(Trimmed(arg.s))
            seps == {i \in 1..Len(u) : At(u, i) \in {",", "."}}
            decimal == At(u, CHOOSE i \in seps : \A j \in seps : j <= i)
            other == IF decimal = "," THEN "." ELSE ","
            m == float(Replace(RemoveChars(u, {other}), decimal, "."))
        IN /\ (Contains(u, ",") /\ Contains(u, ".")) =>
                  Abs(ret) = (IF m = ValueError THEN Zero ELSE m)
           /\ arg.s \in {"1.234,56", "1,234.56"} => ret = PyFloat(123456, 2)

C6_Witness == pc = "parse_number" /\ arg = PyStr("1.234,56") /\ ret = PyFloat(123456, 2)

-----------------------------------------------------------------------------
(* SpecDate: parse_date_smart applied to renderings of dates, in and out   *)
(* of range, and to texts that are no date.                                *)

Pad(text, width) == IF Len(text) < width THEN SubSeq("0000", 1, width - Len(text)) \o text ELSE text

Capitalized(name) == Upper(Take(name, 1)) \o Drop(name, 1)

Years == {0, 2024} \cup (2025..LastYear)

DateOrigins ==
    [form : {"name"}, y : Years, m : 1..12, d : 0..MaxDay, dpad : BOOLEAN,
     mpad : {FALSE}, sep1 : {" "}, sep2 : {" "}, case : {"lower", "upper", "capitalized"}]
    \cup
    [form : {"iso", "eu"}, y : Years, m : 0..MaxMonth, d : 0..MaxDay, dpad : BOOLEAN,
     mpad : BOOLEAN, sep1 : {"/", "-"}, sep2 : {"/", "-"}, case : {"none"}]

\* The text of a date in one of the three fixed forms
Rendered(o) ==
    LET day == IF o.dpad THEN Pad(StrOf(o.d), 2) ELSE StrOf(o.d)
        month == IF o.mpad THEN Pad(StrOf(o.m), 2) ELSE StrOf(o.m)
        year == Pad(StrOf(o.y), 4)
        name == CASE o.case = "upper" -> Upper(MonthNames[o.m])
                  [] o.case = "capitalized" -> Capitalized(MonthNames[o.m])
                  [] OTHER -> MonthNames[o.m]
    IN CASE o.form = "name" -> day \o o.sep1 \o name \o o.sep2 \o year
         [] o.form = "iso" -> year \o o.sep1 \o month \o o.sep2 \o day
         [] OTHER -> day \o o.sep1 \o month \o o.sep2 \o year

OtherDateArgs ==
    {PyNone, PyInt(0), PyInt(20250930), NaN} \cup
    {PyStr(s) : s \in {"", "abc", "30 Sept 2025", "30.09.2025", "  30/09/2025 ",
                       "30  September   2025", "2025-09-30T10:00", "123/09/2025",
                       "30 September 25", "30/09/25", "1\tMay\t2025", "2025-09-30\n",
                       "nan", "   ", "۳۰ May ۲۰۲۵", "۳۰/۰۹/۲۰۲۵", "۲۰۲۵-۰۹-۳۰",
                       "30 May 2025", "30 MAÝ 2025"}}

InitDate ==
    /\ \/ \E o \in DateOrigins : origin = o /\ arg = PyStr(Rendered(o))
       \/ origin = PyNone /\ arg \in OtherDateArgs
    /\ ret = Pending
    /\ NoLoop
    /\ NoBatch
    /\ pc = "call"

CallParseDateSmart ==
    /\ pc = "call"
    /\ \E fallback \in FallbackOf(arg) : ret' = parse_date_smart(arg, fallback)
    /\ pc' = "parse_date_smart"
    /\ UNCHANGED <<arg, origin, loopVars, batchVars>>

NextDate == CallParseDateSmart

SpecDate == InitDate /\ [][NextDate]_vars

-----------------------------------------------------------------------------
(* Claims about parse_date_smart, checked under SpecDate.                  *)

\* C3: parse_date_smart returns a date or None for every text and never
\* raises, also when the text has one of the three fixed forms with a day or
\* month number out of range.
C3_ParseDateTotal ==
    pc = "parse_date_smart" => ret.type \in {"datetime", "Timestamp", "NoneType"}

\* C7: every valid calendar date (d, m, y) is read back from its renderings
\* "d MonthName y" (the name in any letter case), "y-m-d" or "y/m/d", and
\* "d/m/y" or "d-m-y"; a text that starts with a four-digit year is never
\* read day-first.
C7_ThreeFormsAgree ==
    pc = "parse_date_smart" =>
        /\ (/\ origin # PyNone
            /\ origin.y \in 1..9999 /\ origin.m \in 1..12
            /\ origin.d \in 1..DaysInMonth(origin.y, origin.m))
           => ret = [type |-> "datetime", year |-> origin.y, month |-> origin.m,
                     day |-> origin.d]
        /\ (arg.type = "str" /\ PrefixLen(arg.s, Digits) = 4 /\ ret.type = "datetime")
           => ret.year = IntOf(Take(arg.s, 4))
        /\ arg \in {PyStr("30 September 2025"), PyStr("2025-09-30"), PyStr("30/09/2025")}
           => ret = [type |-> "datetime", year |-> 2025, month |-> 9, day |-> 30]

C7_Witness ==
    /\ pc = "parse_date_smart"
    /\ arg = PyStr("2025-01-02")
    /\ ret = [type |-> "datetime", year |-> 2025, month |-> 1, day |-> 2]

-----------------------------------------------------------------------------
(* SpecType: get_transaction_type applied to descriptions made of up to    *)
(* MaxPhrases phrases: a leading phrase, then combining keywords.          *)

RECURSIVE Joined(_)
Joined(literals) ==
    IF Len(literals) = 1 THEN literals[1] ELSE literals[1] \o " " \o Joined(Tail(literals))

\* Every keyword of every rule
KeywordPhrases == {Joined(alt) : alt \in UNION {Rules[i].alts : i \in 1..Len(Rules)}}

OtherPhrases ==
    {"Card transaction of EUR 10 issued by SHOP", "CARD TRANSACTION", "Administration Fee",
     "Cheques Returned", "Standing Instruction Charge", "payment to shop", "coffee", "taxi",
     "private", "weather", "atm cash", "instant payments", "24x7", "sent money", "x",
     "cheque\ndeposit", "repayment of\nprincipal", "CHÈQUE Straße"}

CombiningPhrases ==
    {"fee", "charge", "deposit", "returned", "cheque", "card ending in 1234",
     "card transaction", "issued by SHOP", "inwards"}

RECURSIVE Details(_)
Details(n) ==
    IF n <= 1 THEN KeywordPhrases \cup OtherPhrases
    ELSE LET shorter == Details(n - 1)
         IN shorter \cup {d \o " " \o c : d \in shorter, c \in CombiningPhrases}

TypeArgs == {PyNone, PyStr("")} \cup {PyStr(d) : d \in Details(MaxPhrases)}

InitType ==
    /\ arg \in TypeArgs
    /\ origin = PyNone
    /\ ret = Pending
    /\ NoLoop
    /\ NoBatch
    /\ pc = "call"

CallGetTransactionType ==
    /\ pc = "call"
    /\ ret' = get_transaction_type(arg)
    /\ pc' = "get_transaction_type"
    /\ UNCHANGED <<arg, origin, loopVars, batchVars>>

NextType == CallGetTransactionType

SpecType == InitType /\ [][NextType]_vars

-----------------------------------------------------------------------------
(* Claims about get_transaction_type, checked under SpecType.              *)

Described == pc = "get_transaction_type" /\ arg # PyNone
MatchesAny(s, rules) == \E i \in 1..Len(rules) : RuleMatches(s, rules[i])

\* C8: within each theme the more specific phrase is tested before a broader
\* keyword it contains: a description that contains "administration fee",
\* "standing instruction charge" or "cheques returned", and matches no rule of
\* an earlier theme, is labelled "administration fee", "standing instruction
\* charge" or "cheque returned".
C8_SpecificBeforeGeneric ==
    Described =>
        LET d == Lowered(arg.s)
            beforeCheques == CardTransactionsRules \o TransfersRules
            beforeFees == beforeCheques \o ChequesRules
        IN /\ (Contains(d, "administration fee") /\ ~MatchesAny(d, beforeFees))
                  => ret = PyStr("administration fee")
           /\ (Contains(d, "standing instruction charge") /\ ~MatchesAny(d, beforeFees))
                  => ret = PyStr("standing instruction charge")
           /\ (Contains(d, "cheques returned") /\ ~MatchesAny(d, beforeCheques))
                  => ret = PyStr("cheque returned")

\* C9: every description that contains "card transaction", in any letter
\* case, is labelled "card payment", whatever other keywords it contains.
C9_CardTransactionFirst ==
    (Described /\ Contains(Lowered(arg.s), "card transaction")) => ret = PyStr("card payment")

C9_Witness ==
    /\ Described
    /\ Contains(arg.s, "CARD TRANSACTION") /\ Contains(arg.s, "card ending in")
    /\ ret = PyStr("card payment")

\* The labels of the classifier
Vocabulary ==
    {"card payment", "card transaction", "outgoing transfer", "incoming transfer",
     "account transfer", "internal transfer", "incoming sct transfer",
     "outgoing sct transfer", "instant payment in", "instant payment", "cheque deposit",
     "cheque returned fee", "cheque returned", "cheque payment", "transfer fee", "bank fee",
     "bank charge", "administration fee", "standing instruction charge",
     "standing instruction", "salary", "employment payment", "stipend/salary",
     "loan principal repayment", "loan interest repayment", "loan", "tax payment",
     "vat payment", "customs payment", "government payment", "atm cash deposit",
     "third party payment", "bill payment", "mobile payment", "direct debit out",
     "insurance payment", "hotel payment", "catering payment", "food & retail",
     "retail payment", "utility payment", "cashback", "refund", "deposit", "withdrawal",
     "other"}

\* C10: an empty or absent description is labelled "other", a description
\* that matches no predicate is labelled "other", and every label returned is
\* one of the fixed labels; the function never raises.
C10_TypeTotal ==
    pc = "get_transaction_type" =>
        /\ ret.type = "str" /\ ret.s \in Vocabulary
        /\ (arg = PyNone \/ arg.s = "") => ret = PyStr("other")
        /\ (arg # PyNone /\ ~MatchesAny(Lowered(arg.s), Rules)) => ret = PyStr("other")

C10_Witness ==
    pc = "get_transaction_type" /\ arg = PyStr("payment to shop") /\ ret = PyStr("other")

-----------------------------------------------------------------------------
(* SpecPdf: the line loop of extract_transactions_from_pdf fed up to       *)
(* MaxLines lines of extracted text, one action per branch of the loop     *)
(* body, then the end of the input. SpecAmounts and SpecPages are the same *)
(* loop fed the lines of other statements, and so is SpecSubstrings.       *)

LinePool ==
    {"Description Incoming Outgoing Amount",
     "30 September 2025 Payment to Shop 50.00 1,200.00",
     "continued note",
     "Closing Balance 1,200.00",
     "31 February 2025 Rent -10.00 90.00",
     "2 October 2025 Transfer -50.00 150.00",
     "ref 12.50 1,187.50",
     "3 October 2025 1,150.00",
     " \t"}

\* A statement whose records carry their numbers on several lines
AmountLines ==
    {"Description Incoming Outgoing Amount",
     "30 September 2025 Payment to Shop 50.00 1,200.00",
     "2 October 2025 Transfer -50.00 150.00",
     "3 October 2025 1,150.00",
     "ref 12.50 1,187.50",
     "adj -20.00 1,180.00",
     "carried 1,100.00",
     "continued note",
     "Page 2",
     " \t"}

\* A statement of several pages, each with its header and its closing line
PageLines ==
    {"Description Incoming Outgoing Amount",
     "30 September 2025 Payment to Shop 50.00 1,200.00",
     "4 October 2025 Total Energies -30.00 120.00",
     "ref 12.50 1,187.50",
     "Closing Balance 1,200.00",
     " \t"}

\* A statement with amounts that are part of other amounts of their line
SubstringLines ==
    {"Description Incoming Outgoing Amount",
     "2 October 2025 Transfer 50.00 150.00",
     "fee 5.00 15.00",
     "Card 1234",
     "ref 12.50 1,187.50",
     "continued note",
     "Page 2",
     " \t"}

\* The text extracted from the document at pdf_path: the lines its pages can
\* hold, and the number of lines it has at most
Statement(pool, length) == [type |-> "pdf", pool |-> pool, length |-> length]

InitOf(statement) ==
    /\ arg = statement
    /\ origin = PyNone
    /\ ret = Pending
    /\ NoLoop
    /\ NoBatch
    /\ pc = "loop"

InitPdf == InitOf(Statement(LinePool, MaxLines))
InitAmounts == InitOf(Statement(AmountLines, MaxLines))
InitPages == InitOf(Statement(PageLines, MaxLines + 1))
InitSubstrings == InitOf(Statement(SubstringLines, MaxLines))

\* What pd.to_datetime makes of the date text of a line, were line 109
\* reached for it (pandas is imported at line 8 of the processor)
LineFallbacks(match) == IF match = NoMatch THEN {} ELSE to_datetime(Strip(match[1]))

\* What the loop body tests on a line, worked out once per line of the pool:
\* line.strip(), the header and terminal patterns, the date pattern
Scanned ==
    [line \in LinePool \cup AmountLines \cup PageLines \cup SubstringLines |->
        [text |-> Strip(line),
         header |-> IsHeader(Strip(line)),
         terminal |-> IsTerminal(Strip(line)),
         match |-> date_match(Strip(line)),
         fallbacks |-> LineFallbacks(date_match(Strip(line)))]]

Reading(line) == pc = "loop" /\ Len(lines) < arg.length /\ line \in arg.pool

\* Lines 51-53
BlankLine ==
    \E line \in arg.pool :
        /\ Reading(line)
        /\ Scanned[line].text = ""
        /\ lines' = Append(lines, line)
        /\ UNCHANGED batchVars
        /\ UNCHANGED <<arg, origin, ret, in_transactions, current_transaction,
                       transactions, result, pc>>

\* Lines 55-58
HeaderLine ==
    \E line \in arg.pool :
        /\ Reading(line)
        /\ Scanned[line].text # ""
        /\ Scanned[line].header
        /\ lines' = Append(lines, line)
        /\ in_transactions' = TRUE
        /\ UNCHANGED batchVars
        /\ UNCHANGED <<arg, origin, ret, current_transaction, transactions, result, pc>>

\* Lines 60-63
TerminalLine ==
    \E line \in arg.pool :
        /\ Reading(line)
        /\ Scanned[line].text # ""
        /\ ~Scanned[line].header
        /\ in_transactions /\ Scanned[line].terminal
        /\ lines' = Append(lines, line)
        /\ in_transactions' = FALSE
        /\ UNCHANGED batchVars
        /\ UNCHANGED <<arg, origin, ret, current_transaction, transactions, result, pc>>

\* InBlock without the test of the block flag
InBlockWithoutFlag(line) ==
    /\ Scanned[line].text # ""
    /\ ~Scanned[line].header
    /\ ~Scanned[line].terminal

\* Lines 55-65: the line is neither a header nor a terminal marker and the
\* block flag is set
InBlock(line) ==
    /\ Scanned[line].text # ""
    /\ ~Scanned[line].header
    /\ in_transactions /\ ~Scanned[line].terminal

\* Lines 68-119; a ValueError of parse_date_smart leaves the loop for the
\* except clause of lines 177-181
DateLine ==
    \E line \in arg.pool :
        /\ Reading(line)
        /\ InBlock(line)
        /\ Scanned[line].match # NoMatch
        /\ lines' = Append(lines, line)
        /\ \E fallback \in Scanned[line].fallbacks :
               LET match == Scanned[line].match
                   date_obj == parse_date_smart(PyStr(match[1]), fallback)
               IN IF date_obj = ValueError
                  THEN /\ transactions' = WithPending(transactions, current_transaction)
                       /\ result' = EmptyDataFrame
                       /\ pc' = "done"
                       /\ UNCHANGED current_transaction
                  ELSE /\ transactions' = WithPending(transactions, current_transaction)
                       /\ current_transaction' = NewTransaction(date_obj, match[2])
                       /\ UNCHANGED <<result, pc>>
        /\ UNCHANGED batchVars
        /\ UNCHANGED <<arg, origin, ret, in_transactions>>

\* Lines 121-147
ContinuationLine ==
    \E line \in arg.pool :
        /\ Reading(line)
        /\ InBlock(line)
        /\ Scanned[line].match = NoMatch
        /\ current_transaction # PyNone
        /\ lines' = Append(lines, line)
        /\ current_transaction' = Continued(current_transaction, Scanned[line].text)
        /\ UNCHANGED batchVars
        /\ UNCHANGED <<arg, origin, ret, in_transactions, transactions, result, pc>>

\* SkippedLine that drops the pending record
SkippedLineDropsPending ==
    \E line \in arg.pool :
        /\ Reading(line)
        /\ Scanned[line].text # ""
        /\ ~Scanned[line].header
        /\ \/ ~in_transactions
           \/ /\ InBlock(line)
              /\ Scanned[line].match = NoMatch
              /\ current_transaction = PyNone
        /\ lines' = Append(lines, line)
        /\ current_transaction' = PyNone
        /\ UNCHANGED batchVars
        /\ UNCHANGED <<arg, origin, ret, in_transactions, transactions, result, pc>>

\* Lines 65 and 121: a line outside the block, or in it with no pending record
SkippedLine ==
    \E line \in arg.pool :
        /\ Reading(line)
        /\ Scanned[line].text # ""
        /\ ~Scanned[line].header
        /\ \/ ~in_transactions
           \/ /\ InBlock(line)
              /\ Scanned[line].match = NoMatch
              /\ current_transaction = PyNone
        /\ lines' = Append(lines, line)
        /\ UNCHANGED batchVars
        /\ UNCHANGED <<arg, origin, ret, in_transactions, current_transaction,
                       transactions, result, pc>>

\* Lines 149-187: the end of the lines
EndOfInput ==
    /\ pc = "loop"
    /\ transactions' = WithPending(transactions, current_transaction)
    /\ result' = DataFrame(Rows(transactions'))
    /\ pc' = "done"
    /\ UNCHANGED batchVars
    /\ UNCHANGED <<arg, origin, ret, lines, in_transactions, current_transaction>>

NextPdf ==
    \/ BlankLine
    \/ HeaderLine
    \/ TerminalLine
    \/ DateLine
    \/ ContinuationLine
    \/ SkippedLine
    \/ EndOfInput

SpecPdf == InitPdf /\ [][NextPdf]_vars
SpecAmounts == InitAmounts /\ [][NextPdf]_vars
SpecPages == InitPages /\ [][NextPdf]_vars
SpecSubstrings == InitSubstrings /\ [][NextPdf]_vars

-----------------------------------------------------------------------------
(* Claims about the line loop, checked under SpecPdf.                      *)

Scenario ==
    <<"Description Incoming Outgoing Amount",
      "30 September 2025 Payment to Shop 50.00 1,200.00",
      "continued note",
      "Closing Balance 1,200.00">>

ScenarioDone == pc = "done" /\ lines = Scenario

\* C1 as stated: fed the four lines of the scenario, the loop yields exactly
\* one transaction, whose detail contains "Payment to Shop continued note",
\* whose amount is -50.00, and which carries no balance field.
C1_ScenarioOutgoing ==
    ScenarioDone =>
        /\ Len(result.rows) = 1
        /\ Contains(result.rows[1].Detail, "Payment to Shop continued note")
        /\ result.rows[1].Amount = PyFloat(0 - 5000, 2)
        /\ "balance" \notin DOMAIN result.rows[1]

\* C1 as amended: fed the four lines of the scenario, the loop yields exactly
\* one transaction, whose detail contains "Payment to Shop continued note",
\* whose amount is +50.00 (the token "50.00" has no leading minus, so it is
\* the incoming amount), and which carries no balance field.
C1_ScenarioIncoming ==
    ScenarioDone =>
        /\ Len(result.rows) = 1
        /\ Contains(result.rows[1].Detail, "Payment to Shop continued note")
        /\ result.rows[1].Amount = PyFloat(5000, 2)
        /\ "balance" \notin DOMAIN result.rows[1]

C1_Witness == ScenarioDone /\ Len(result.rows) = 1

\* The block flag after the first k lines
RECURSIVE BlockFlag(_)
BlockFlag(k) ==
    IF k = 0 THEN FALSE
    ELSE LET line == Scanned[lines[k]]
         IN IF line.text # "" /\ line.header THEN TRUE
            ELSE IF line.text # "" /\ line.terminal THEN FALSE
            ELSE BlockFlag(k - 1)

\* The k-th line is a well-formed record line: a date-leading line in the
\* block whose date is a calendar date and whose description is not empty
WellFormedRecordLine(k) ==
    LET line == Scanned[lines[k]]
    IN /\ BlockFlag(k - 1)
       /\ line.text # "" /\ ~line.header /\ ~line.terminal
       /\ line.match # NoMatch
       /\ parse_date_smart(PyStr(line.match[1]), PyNone).type = "datetime"
       /\ WithoutAmounts(line.match[2], findall_amounts(line.match[2])) # ""

\* C2: a line whose date cannot be normalized does not abort the statement:
\* at the end, every well-formed record line of the statement has its record
\* in the result.
C2_MalformedFieldDoesNotAbort ==
    pc = "done" =>
        \A k \in 1..Len(lines) :
            WellFormedRecordLine(k) =>
                \E j \in 1..Len(result.rows) :
                    /\ result.rows[j].Date =
                           parse_date_smart(PyStr(Scanned[lines[k]].match[1]), PyNone)
                    /\ StartsWith(result.rows[j].Detail,
                                  WithoutAmounts(Scanned[lines[k]].match[2],
                                      findall_amounts(Scanned[lines[k]].match[2])))

-----------------------------------------------------------------------------
(* SpecCounterparty: extract_counterparty applied to descriptions made of  *)
(* an opening phrase, a party and a closing phrase.                        *)

Openers ==
    {"", "Sent money to", "Received money from",
     "Card transaction of EUR 12.50 issued by",
     "Received money from Bob, sent money to",
     "SCT Inwards", "24x7 Pay Third Parties", "Payment order outwards",
     "ADMINISTRATIO", "Cheque deposit", "transfer to"}

Parties ==
    {"", "John Smith", "ACME TRADING", "Acme Ltd", "Mr John Smith", "12345",
     "ADMINISTRATIO 777", "the corner shop at the old harbour", "Émile Müller"}

Closers ==
    {"", "Transaction: 123", "with reference 77", "Card ending 1234", "ref: AB12",
     "EUR 50.00", "value date - 01/02/2025", "relation: rent"}

CounterpartyOrigins ==
    {[opener |-> o, party |-> p, closer |-> c] : o \in Openers, p \in Parties, c \in Closers}

\* The description an origin stands for: its non-empty parts, a space between them
Description(o) ==
    join(" ", SelectSeq(<<o.opener, o.party, o.closer>>, LAMBDA part : part # ""))

InitCounterparty ==
    /\ \/ origin \in CounterpartyOrigins /\ arg = PyStr(Description(origin))
       \/ origin = PyNone /\ arg \in {PyStr("  "), PyStr("Sent money to   ")}
    /\ ret = Pending
    /\ NoLoop
    /\ NoBatch
    /\ pc = "call"

CallExtractCounterparty ==
    /\ pc = "call"
    /\ ret' = PyStr(extract_counterparty(arg.s))
    /\ pc' = "extract_counterparty"
    /\ UNCHANGED <<arg, origin, loopVars, batchVars>>

NextCounterparty == CallExtractCounterparty

SpecCounterparty == InitCounterparty /\ [][NextCounterparty]_vars

-----------------------------------------------------------------------------
(* Claims about extract_counterparty, checked under SpecCounterparty.      *)

\* C11: extract_counterparty returns a non-empty result for every non-empty
\* description; the result is empty only when the source text itself is empty.
C11_EmptyOnlyForEmptyText ==
    pc = "extract_counterparty" /\ arg.s # "" => ret.s # ""

\* The structural phrasings in the order of the decision list, and the
\* closing phrases each one stops at
StructuralPhrases == <<"sent money to", "received money from", "issued by">>

StructuralClosers ==
    <<{"Transaction: 123"},
      {"with reference 77", "Transaction: 123"},
      {"Card ending 1234", "Transaction: 123"}>>

\* The first structural phrasing an opening phrase holds, 0 when it holds none
Governing(opener) ==
    LET held == {k \in 1..3 : Contains(Lowered(opener), StructuralPhrases[k])}
    IN IF held = {} THEN 0 ELSE CHOOSE k \in held : \A j \in held : k <= j

\* The X of an origin: what follows the governing phrasing, up to the closing
\* phrase that phrasing stops at
CapturedX(o) ==
    LET k == Governing(o.opener)
        phrase == StructuralPhrases[k]
        at == CHOOSE i \in 1..Len(o.opener) : MatchAt(Lowered(o.opener), phrase, i)
        after == Strip(Drop(o.opener, at + Len(phrase) - 1))
        closer == IF o.closer \in StructuralClosers[k] THEN "" ELSE o.closer
    IN join(" ", SelectSeq(<<after, o.party, closer>>, LAMBDA part : part # ""))

\* C12: the structural patterns win over everything later: a description
\* "sent money to X", else "received money from X", else "issued by X" yields
\* the trimmed X, with neither the tax-reference rule nor the cleanup applied;
\* "Sent money to John Smith Transaction: 123" yields "John Smith".
C12_StructuralPatternsWin ==
    /\ pc = "extract_counterparty" /\ origin # PyNone /\ origin.party # ""
           /\ Governing(origin.opener) # 0
       => ret = PyStr(CapturedX(origin))
    /\ pc = "extract_counterparty" /\ arg = PyStr("Sent money to John Smith Transaction: 123")
       => ret = PyStr("John Smith")

C12_Witness ==
    /\ pc = "extract_counterparty"
    /\ origin # PyNone
    /\ origin.opener = "Received money from Bob, sent money to"
    /\ origin.party = "ADMINISTRATIO 777"
    /\ origin.closer = "ref: AB12"
    /\ ret = PyStr("ADMINISTRATIO 777 ref: AB12")

-----------------------------------------------------------------------------
(* SpecProcess: process_transactions applied to a DataFrame of up to       *)
(* MaxRows rows.                                                           *)

Row(Date, Detail, Amount) == [Date |-> Date, Detail |-> Detail, Amount |-> Amount]

RowPool ==
    {Row(datetime(2025, 9, 30), "Sent money to John Smith Transaction: 123", PyFloat(0 - 5000, 2)),
     Row(datetime(2025, 9, 30), "SCT Inwards ACME TRADING LTD invoice 42", PyFloat(1250, 2)),
     Row(datetime(2025, 9, 30), "Cheque deposit", PyFloat(1250, 2)),
     Row(datetime(2025, 9, 30), "transfer to JOHN DOE", PyFloat(0 - 1250, 2)),
     Row(datetime(2025, 10, 2),
         "Card transaction of EUR 12.50 issued by the corner shop at the old harbour",
         PyFloat(0 - 5000, 2)),
     Row(datetime(2025, 10, 2), "ADMINISTRATIO 777", Zero),
     Row(datetime(2025, 10, 2), "Adjustment", NaN),
     Row(datetime(2025, 9, 30), "۳۰", PyFloat(1250, 2)),
     Row(datetime(2025, 10, 2), "ßtraße ΟΔΟΣ", PyFloat(0 - 1250, 2)),
     Row(datetime(2025, 10, 2), "²", PyFloat(0 - 1250, 2)),
     Row(datetime(2025, 10, 2), "Payment to Shop continued note", PyFloat(5000, 2))}

RECURSIVE RowsUpTo(_)
RowsUpTo(n) ==
    IF n = 0 THEN {<<>>}
    ELSE LET shorter == RowsUpTo(n - 1)
         IN shorter \cup {Append(rows, row) : rows \in shorter, row \in RowPool}

\* Two long statements: LongRows deposits of one day, and LongRows deposits
\* that fall on two days in turn, told apart by their amounts
LongRows == 20
OneDay == [i \in 1..LongRows |-> Row(datetime(2025, 9, 30), "Cheque deposit", PyFloat(i, 0))]
TwoDays ==
    [i \in 1..LongRows |->
        Row(datetime(2025, IF i % 2 = 1 THEN 10 ELSE 9, IF i % 2 = 1 THEN 2 ELSE 30),
            "Cheque deposit", PyFloat(i, 0))]

InitProcess ==
    /\ arg \in {EmptyDataFrame} \cup {Frame(rows) : rows \in RowsUpTo(MaxRows)}
                \cup {Frame(OneDay), Frame(TwoDays)}
    /\ origin = PyNone
    /\ ret = Pending
    /\ NoLoop
    /\ NoBatch
    /\ pc = "call"

\* The derived columns, worked out once per description of the pool
DerivedColumns == [Detail \in {row.Detail : row \in RowPool} |-> Derived(Detail)]

\* Lines 201-220: a partition with its derived columns; an empty one is skipped
WithDerived(rows) ==
    IF rows = <<>> THEN <<>>
    ELSE [i \in 1..Len(rows) |->
             [Date |-> rows[i].Date, Detail |-> rows[i].Detail, Amount |-> rows[i].Amount,
              Type |-> DerivedColumns[rows[i].Detail].Type,
              Invoice |-> DerivedColumns[rows[i].Detail].Invoice,
              Counterparty |-> DerivedColumns[rows[i].Detail].Counterparty]]

Partition(rows) == IF rows = <<>> THEN Frame(rows) ELSE Categorised(rows)

\* Line 219: int() raises on a counterparty of the partition
Raises(rows) ==
    \E i \in 1..Len(rows) : DerivedColumns[rows[i].Detail].Counterparty = ValueError

CallProcessTransactions ==
    /\ pc = "call"
    /\ IF Raises(Incoming(arg.rows)) \/ Raises(Outgoing(arg.rows))
       THEN ret' = ValueError /\ pc' = "raise"
       ELSE /\ IF arg.rows = <<>>
               THEN ret' = <<EmptyDataFrame, EmptyDataFrame>>
               ELSE ret' = <<Partition(sort_values(WithDerived(Incoming(arg.rows)))),
                             Partition(sort_values(WithDerived(Outgoing(arg.rows))))>>
            /\ pc' = "process_transactions"
    /\ UNCHANGED <<arg, origin, loopVars, batchVars>>

NextProcess == CallProcessTransactions

SpecProcess == InitProcess /\ [][NextProcess]_vars

-----------------------------------------------------------------------------
(* Claims about process_transactions, checked under SpecProcess.           *)

\* What the three extractors return for each description of the pool
Extracted ==
    [Detail \in {row.Detail : row \in RowPool} |->
        [Type |-> get_transaction_type(PyStr(Detail)).s,
         Invoice |-> extract_invoice(Detail),
         Counterparty |-> extract_counterparty(Detail)]]

\* A text with its first character upper-cased and the rest lower-cased,
\* cut to its first 26 characters
CapitalizedAndCut(text) ==
    LET capitalized == IF text = "" THEN ""
                       ELSE Upper(Take(text, 1)) \o Lower(Drop(text, 1))
    IN IF Len(capitalized) > 26 THEN Take(capitalized, 26) ELSE capitalized

Returned == pc = "process_transactions"

\* The rows of the k-th partition returned, and their source columns
PartitionRows(k) == {ret[k].rows[i] : i \in 1..Len(ret[k].rows)}

SourceColumns(rows) ==
    IF rows = <<>> THEN <<>>
    ELSE [i \in 1..Len(rows) |-> Row(rows[i].Date, rows[i].Detail, rows[i].Amount)]

\* C13: in the output of process_transactions every textual Type, Invoice and
\* Counterparty has at most 26 characters and is the extracted value with its
\* first character upper-cased and the rest lower-cased, cut to its first 26
\* characters; an empty extraction stays an empty string, never null.
C13_DerivedTextCapitalizedAndCut ==
    Returned =>
        \A row \in PartitionRows(1) \cup PartitionRows(2) :
            /\ row.Type = PyStr(CapitalizedAndCut(Extracted[row.Detail].Type))
            /\ row.Invoice = PyStr(CapitalizedAndCut(Extracted[row.Detail].Invoice))
            /\ row.Counterparty.type \in {"str", "int"}
            /\ row.Counterparty.type = "str" =>
                   row.Counterparty = PyStr(CapitalizedAndCut(Extracted[row.Detail].Counterparty))
            /\ \A text \in {row.Type, row.Invoice, row.Counterparty} :
                   text.type = "str" => Len(text.s) <= 26

C13_Witness ==
    /\ Returned
    /\ \E row \in PartitionRows(2) :
           /\ Len(Extracted[row.Detail].Counterparty) > 26
           /\ row.Counterparty = PyStr("The corner shop at the old")
           /\ row.Type = PyStr("Card payment")
           /\ row.Invoice = PyStr("")

\* How many times a row occurs in a sequence of rows
Occurrences(rows, row) == Cardinality({i \in 1..Len(rows) : rows[i] = row})

\* C14: process_transactions partitions by amount sign only: each record is
\* in exactly one of the two outputs, in incoming iff its amount >= 0 (zero
\* counts as incoming) and in outgoing iff its amount < 0; the two sizes add
\* up to the input size; date, detail and amount of each record are unchanged.
C14_PartitionBySign ==
    Returned =>
        /\ Len(ret[1].rows) + Len(ret[2].rows) = Len(arg.rows)
        /\ \A row \in PartitionRows(1) : ~IsNegative(row.Amount)
        /\ \A row \in PartitionRows(2) : IsNegative(row.Amount)
        /\ \A row \in {arg.rows[i] : i \in 1..Len(arg.rows)} :
               Occurrences(arg.rows, row) =
                   Occurrences(SourceColumns(ret[1].rows), row)
                       + Occurrences(SourceColumns(ret[2].rows), row)

\* The rows in date order, rows of one date in their order in the input
StableByDate(rows) ==
    LET before(j, i) ==
            \/ Earlier(rows[j].Date, rows[i].Date)
            \/ ~Earlier(rows[i].Date, rows[j].Date) /\ j < i
        rank(i) == Cardinality({j \in 1..Len(rows) : before(j, i)}) + 1
    IN IF rows = <<>> THEN <<>>
       ELSE [k \in 1..Len(rows) |-> rows[CHOOSE i \in 1..Len(rows) : rank(i) = k]]

\* C15: each partition returned is sorted ascending by date and the sort is
\* stable: two records of one partition that share a date appear in the same
\* relative order as in the input.
C15_SortedByDateStable ==
    Returned =>
        /\ SourceColumns(ret[1].rows) = StableByDate(Incoming(arg.rows))
        /\ SourceColumns(ret[2].rows) = StableByDate(Outgoing(arg.rows))

-----------------------------------------------------------------------------
(* Claims about the states of the line loop: the header, the terminal      *)
(* markers, the date-leading lines and the numbers of a record.            *)

\* No line read so far is a header line
NoHeaderSeen ==
    \A k \in 1..Len(lines) : ~(Scanned[lines[k]].text # "" /\ Scanned[lines[k]].header)

\* C16: if no line matches the column-header pattern, the loop never enters
\* the transaction block: every line is ignored whatever it contains, the
\* result is an empty record set and no fault is raised.
C16_NoHeaderNoRecords ==
    NoHeaderSeen =>
        /\ ~in_transactions
        /\ current_transaction = PyNone
        /\ transactions = <<>>
        /\ pc = "done" => result = DataFrame(<<>>)

C16_Witness ==
    /\ pc = "done"
    /\ NoHeaderSeen
    /\ \E k \in 1..Len(lines) : lines[k] = "31 February 2025 Rent -10.00 90.00"
    /\ \E k \in 1..Len(lines) : lines[k] = "Closing Balance 1,200.00"
    /\ result = DataFrame(<<>>)

\* The k-th line was read with the block flag set and is no header; it then
\* ended the block, or started a record
ReadInBlock(k) ==
    BlockFlag(k - 1) /\ Scanned[lines[k]].text # "" /\ ~Scanned[lines[k]].header
EndedAt(k) == ReadInBlock(k) /\ Scanned[lines[k]].terminal
StartedAt(k) ==
    ReadInBlock(k) /\ ~Scanned[lines[k]].terminal /\ Scanned[lines[k]].match # NoMatch

\* A terminal marker was read after the line that started the pending record
PendingEnded ==
    /\ current_transaction # PyNone
    /\ \E k \in 1..Len(lines) :
           EndedAt(k) /\ \A j \in (k + 1)..Len(lines) : ~StartedAt(j)

\* The line a step reads
NewLine == lines'[Len(lines')]

\* C17: a terminal marker read in the block finalizes the pending record: no
\* line read afterwards, also after a later header line re-opens the block,
\* changes that record's description or amounts; the pending record changes
\* only by a date-leading line putting a new record in its place.
C17_TerminalMarkerFinalizes ==
    [][PendingEnded /\ current_transaction' # current_transaction
           => Len(lines') = Len(lines) + 1 /\ Scanned[NewLine].match # NoMatch]_vars

\* The line begins with a date token that is a date of the calendar
DateLeading(line) ==
    /\ Scanned[line].text # ""
    /\ Scanned[line].match # NoMatch
    /\ parse_date_smart(PyStr(Scanned[line].match[1]), PyNone).type = "datetime"

\* C18: in the transaction block every line that begins with a recognized
\* date token starts a new pending record, and the previously pending record
\* is emitted first iff its description is non-empty, whatever words the rest
\* of the line contains.
C18_DateLineStartsRecord ==
    [][pc = "loop" /\ in_transactions /\ Len(lines') = Len(lines) + 1 /\ DateLeading(NewLine)
           => /\ current_transaction' # PyNone
              /\ current_transaction'.Date =
                     parse_date_smart(PyStr(Scanned[NewLine].match[1]), PyNone)
              /\ transactions' =
                     IF current_transaction # PyNone /\ current_transaction.description # ""
                     THEN Append(transactions, current_transaction)
                     ELSE transactions]_vars

\* The numbers of the k-th line, as the branch that reads it finds them
Tokens(k) ==
    findall_amounts(IF Scanned[lines[k]].match # NoMatch THEN Scanned[lines[k]].match[2]
                    ELSE Scanned[lines[k]].text)

\* The line that started the pending record, and the lines of that record
\* that carry two numbers or more
RecordStart == CHOOSE k \in 1..Len(lines) : StartedAt(k) /\ \A j \in (k + 1)..Len(lines) : ~StartedAt(j)
CarryingLines ==
    {k \in RecordStart..Len(lines) :
        /\ k = RecordStart \/ (ReadInBlock(k) /\ ~Scanned[lines[k]].terminal)
        /\ Len(Tokens(k)) >= 2}

\* A number token as a signed amount: outgoing when it starts with '-'
SignedToken(token) ==
    IF StartsWith(token, "-") THEN Neg(Abs(parse_number(PyStr(token))))
    ELSE Abs(parse_number(PyStr(token)))

\* C19: later lines win: the signed amount of a record spread over several
\* lines is derived only from the last of its lines that carried at least two
\* numbers; a value an earlier line set has no influence on it.
C19_LaterLinesWin ==
    pc = "loop" /\ current_transaction # PyNone /\ CarryingLines # {} =>
        LET last == CHOOSE k \in CarryingLines : \A j \in CarryingLines : j <= k
        IN SignedAmount(current_transaction) = SignedToken(Tokens(last)[Len(Tokens(last)) - 1])

\* A step reads a line of a record: a date-leading line, or a continuation
\* line of the pending record
ReadsRecordLine ==
    /\ pc = "loop" /\ pc' = "loop"
    /\ in_transactions
    /\ Len(lines') = Len(lines) + 1
    /\ Scanned[NewLine].text # ""
    /\ ~Scanned[NewLine].header /\ ~Scanned[NewLine].terminal
    /\ Scanned[NewLine].match # NoMatch \/ current_transaction # PyNone

\* The numbers located on each line of the pools (lines 79-80 and 124-125),
\* and the value of each as parse_number reads it
Located ==
    [line \in DOMAIN Scanned |->
        findall_amounts(IF Scanned[line].match # NoMatch THEN Scanned[line].match[2]
                        ELSE Scanned[line].text)]
ValueOf ==
    [token \in UNION {{Located[line][i] : i \in 1..Len(Located[line])} : line \in DOMAIN Scanned} |->
        parse_number(PyStr(token))]

\* C20: on a date-leading or continuation line with at least two numbers the
\* last is the balance and never contributes to the amount, and the
\* second-to-last is recorded as outgoing iff its token starts with '-',
\* otherwise as incoming, as an absolute value; a line with exactly one
\* number sets only the balance.
C20_LastIsBalance ==
    [][ReadsRecordLine =>
           LET starts == Scanned[NewLine].match # NoMatch
               tokens == Located[NewLine]
               n == Len(tokens)
               incoming == IF starts THEN PyNone ELSE current_transaction.incoming
               outgoing == IF starts THEN PyNone ELSE current_transaction.outgoing
               value == Abs(ValueOf[tokens[n - 1]])
           IN /\ n >= 1 => current_transaction'.balance = ValueOf[tokens[n]]
              /\ n >= 2 /\ StartsWith(tokens[n - 1], "-") =>
                     /\ current_transaction'.outgoing = value
                     /\ current_transaction'.incoming = incoming
                     /\ starts => SignedAmount(current_transaction') = Neg(value)
              /\ n >= 2 /\ ~StartsWith(tokens[n - 1], "-") =>
                     /\ current_transaction'.incoming = value
                     /\ current_transaction'.outgoing = outgoing
                     /\ starts => SignedAmount(current_transaction') = value
              /\ n = 1 =>
                     /\ current_transaction'.incoming = incoming
                     /\ current_transaction'.outgoing = outgoing
                     /\ starts => SignedAmount(current_transaction') = Zero]_vars

C20_Witness ==
    /\ pc = "loop"
    /\ Len(lines) >= 3
    /\ lines[Len(lines)] = "carried 1,100.00"
    /\ lines[Len(lines) - 1] = "adj -20.00 1,180.00"
    /\ current_transaction # PyNone
    /\ current_transaction.outgoing = PyFloat(20, 0)
    /\ current_transaction.balance = PyFloat(1100, 0)

-----------------------------------------------------------------------------
(* Claims about the finalized records, checked under SpecAmounts and       *)
(* SpecPdf.                                                                *)

\* The collected records that reach the output: those with a date and a
\* description that is not empty once stripped
Finalized ==
    SelectSeq(transactions, LAMBDA t : t.Date # PyNone /\ Strip(t.description) # "")

Emitted == pc = "done" /\ result # EmptyDataFrame

\* C21: the amount of every finalized record is its incoming value when that
\* is present and above zero, else minus its outgoing value when that is
\* present and above zero, else zero; the balance plays no part
C21_SignedAmountRule ==
    Emitted =>
        /\ Len(result.rows) = Len(Finalized)
        /\ \A i \in 1..Len(Finalized) :
               LET trans == Finalized[i]
                   amount == result.rows[i].Amount
               IN IF trans.incoming # PyNone /\ trans.incoming.n > 0
                  THEN amount = trans.incoming
                  ELSE IF trans.outgoing # PyNone /\ trans.outgoing.n > 0
                       THEN amount = [trans.outgoing EXCEPT !.n = 0 - @]
                       ELSE amount = PyFloat(0, 0)

\* A record with both values set is emitted with its incoming value
C21_Witness ==
    /\ Emitted
    /\ \E i \in 1..Len(Finalized) :
           /\ Finalized[i].incoming = PyFloat(50, 0)
           /\ Finalized[i].outgoing = PyFloat(20, 0)
           /\ Finalized[i].balance = PyFloat(1180, 0)
           /\ result.rows[i].Amount = PyFloat(50, 0)

\* The scan ends: the step that leaves the loop
ScanEnds == pc = "loop" /\ pc' = "done"

\* C22: when the input ends the pending record is finalized whether or not
\* the block is still open; every row of the output has a date and a
\* description that is not empty; and a pending record whose description is
\* empty when the next date line or the end of the input arrives is not kept
C22_EndOfInputFinalizes ==
    [][/\ ScanEnds =>
              \A i \in 1..Len(result'.rows) :
                  /\ result'.rows[i].Date # PyNone
                  /\ Strip(result'.rows[i].Detail) # ""
       /\ (/\ ScanEnds /\ result' # EmptyDataFrame
           /\ current_transaction # PyNone
           /\ current_transaction.Date # PyNone
           /\ Strip(current_transaction.description) # "")
              => /\ result'.rows # <<>>
                 /\ LET last == result'.rows[Len(result'.rows)]
                    IN /\ last.Date = current_transaction.Date
                       /\ last.Detail = Strip(current_transaction.description)
       /\ (current_transaction # PyNone /\ current_transaction.description = "")
              => transactions' = transactions]_vars

\* The scan stopped after the block had ended, with one record pending and
\* one record dropped for its empty description
C22_Witness ==
    /\ pc = "done"
    /\ ~in_transactions
    /\ lines = <<"Description Incoming Outgoing Amount",
                 "3 October 2025 1,150.00",
                 "30 September 2025 Payment to Shop 50.00 1,200.00",
                 "Closing Balance 1,200.00">>
    /\ Len(result.rows) = 1
    /\ result.rows[1].Detail = "Payment to Shop"

\* The text with the numbers that findall locates cut out where they stand
RECURSIVE NumbersRemoved(_)
NumbersRemoved(s) ==
    IF s = "" THEN ""
    ELSE IF AmountLen(s) > 0 THEN NumbersRemoved(Drop(s, AmountLen(s)))
    ELSE Head(s) \o NumbersRemoved(Tail(s))

\* C23: the description part taken from a date-leading or continuation line
\* is the line's text with each located number removed whole: no digit of a
\* located number stays and no other text goes, also when one located number
\* is part of another
C23_StripsExactlyTheNumbers ==
    [][\A line \in arg.pool :
           (Reading(line) /\ InBlock(line) /\ lines' = Append(lines, line) /\ pc' = "loop")
               => IF Scanned[line].match # NoMatch
                  THEN current_transaction'.description
                           = Strip(NumbersRemoved(Scanned[line].match[2]))
                  ELSE current_transaction # PyNone
                           => LET desc_part == Strip(NumbersRemoved(Scanned[line].text))
                              IN current_transaction'.description
                                     = current_transaction.description
                                           \o (IF desc_part = "" THEN "" ELSE " " \o desc_part)
      ]_vars

-----------------------------------------------------------------------------
(* A claim about the commas of an amount, checked under SpecNumber.        *)

\* C24: when the amount text holds ',' and no '.', the comma is the decimal
\* point iff there is exactly one comma and at most two characters follow
\* it; otherwise every comma is removed as a thousands separator. "12,5"
\* yields 12.5, "1234,56" 1234.56, "1,234" 1234 and "1,234,567" 1234567.
C24_LoneCommaRule ==
    (pc = "parse_number" /\ arg.type = "str") =>
        LET u == Unsigned(Trimmed(arg.s))
            commas == {i \in 1..Len(u) : At(u, i) = ","}
            comma == CHOOSE i \in commas : TRUE
            decimal == Cardinality(commas) = 1 /\ Len(u) - comma <= 2
            m == float(IF decimal THEN Take(u, comma - 1) \o "." \o Drop(u, comma)
                       ELSE RemoveChars(u, {","}))
        IN /\ (commas # {} /\ \A i \in 1..Len(u) : At(u, i) # ".") =>
                  Abs(ret) = (IF m = ValueError THEN Zero ELSE m)
           /\ arg.s = "12,5" => ret = PyFloat(125, 1)
           /\ arg.s = "1234,56" => ret = PyFloat(123456, 2)
           /\ arg.s = "1,234" => ret = PyFloat(1234, 0)
           /\ arg.s = "1,234,567" => ret = PyFloat(1234567, 0)

C24_Witness == pc = "parse_number" /\ arg = PyStr("1,234") /\ ret = PyFloat(1234, 0)

-----------------------------------------------------------------------------
(* SpecCopies: parse_number and get_transaction_type of common_categorization *)
(* and of wamo_categorization called with the same argument               *)

InitCopies ==
    /\ arg \in NumberArgs \cup TypeArgs
    /\ origin = PyNone
    /\ ret = Pending
    /\ NoLoop
    /\ NoBatch
    /\ pc = "call"

CallBothParseNumber ==
    /\ pc = "call"
    /\ ret' = [common |-> parse_number(arg), wamo |-> wamo_parse_number(arg)]
    /\ pc' = "parse_number"
    /\ UNCHANGED <<arg, origin, loopVars, batchVars>>

\* A description is a string or None
CallBothGetTransactionType ==
    /\ pc = "call"
    /\ ret' = [common |-> get_transaction_type(arg), wamo |-> wamo_get_transaction_type(arg)]
    /\ pc' = "get_transaction_type"
    /\ UNCHANGED <<arg, origin, loopVars, batchVars>>

NextCopies == CallBothParseNumber \/ CallBothGetTransactionType

SpecCopies == InitCopies /\ [][NextCopies]_vars

\* C25: wamo_categorization.parse_number returns what
\* common_categorization.parse_number returns for every input, and the two
\* get_transaction_type return the same label for every description
C25_CopiesAgree == ret # Pending => ret.wamo = ret.common

-----------------------------------------------------------------------------
(* csv_statement_processor: extract_transactions_from_csv, then            *)
(* process_transactions on the frame it returns, as main() calls them      *)

\* The cell pandas.read_csv gives for an empty field is NaN, the null date
\* pd.to_datetime gives for its text is NaT
notna(v) == v \notin {PyNone, NaN, NaT}

\* The file at csv_path as lines 33-50 read it: whether a line holds
\* 'Transaction History', the column names of the line after it, and the
\* cells under them. read_csv gives a column whose fields are all numbers a
\* numeric dtype, and a column with any other field the fields' text.
Csv(history, columns, rows) ==
    [type |-> "csv", history |-> history, columns |-> columns, rows |-> rows]

DateCells == {PyStr("30/09/2025"), PyStr("2 Oct 2025"), NaN}
DetailCells == {"Cheque deposit", "transfer to JOHN DOE"}
NumericCells == {PyFloat(0 - 1250, 2), PyFloat(5000, 2)}
TextCells == {PyStr("-12.50"), PyStr("50.00")}

RECURSIVE CellRows(_, _)
CellRows(amounts, n) ==
    IF n = 0 THEN {<<>>}
    ELSE LET shorter == CellRows(amounts, n - 1)
         IN shorter \cup {Append(rows, Row(d, t, a)) :
                              rows \in shorter, d \in DateCells, t \in DetailCells, a \in amounts}

\* The files of up to n rows
CsvFiles(n) ==
    {Csv(TRUE, <<"Date", "Detail ", " Amount">>, rows) :
         rows \in CellRows(NumericCells, n) \cup CellRows(TextCells, n)}
        \cup {Csv(FALSE, <<"Date", "Detail", "Amount">>, <<Row(NaN, "Cheque deposit", Zero)>>),
              Csv(TRUE, <<"Date", "Detail", "Value">>, <<Row(NaN, "Cheque deposit", Zero)>>)}

InitCsv ==
    /\ arg \in CsvFiles(MaxRows)
    /\ origin = PyNone
    /\ ret = Pending
    /\ NoLoop
    /\ NoBatch
    /\ pc = "main"

\* Lines 59-63: the date and the amount of a row
Parsed(row, fallback) ==
    Row(parse_date_smart(row.Date, fallback),
        row.Detail, parse_number(row.Amount))

\* Line 59: apply() calls parse_date_smart once for each Date cell, so the
\* pandas parser yields one outcome for each cell that reaches it
CellOutcomes ==
    [cell \in DateCells |->
        IF ReachesFallback(cell) THEN to_datetime(Strip(str(cell))) ELSE {PyNone}]

CellFallbacks(rows) ==
    {fallbacks \in [1..Len(rows) -> UNION {CellOutcomes[cell] : cell \in DateCells}] :
        \A i \in 1..Len(rows) : fallbacks[i] \in CellOutcomes[rows[i].Date]}

\* Lines 27-77, given what pd.to_datetime makes of each Date cell
extract_transactions_from_csv(csv, fallbacks) ==
    LET columns == {Strip(csv.columns[i]) : i \in 1..Len(csv.columns)}
        parsed == [i \in 1..Len(csv.rows) |-> Parsed(csv.rows[i], fallbacks[i])]
    IN IF ~csv.history THEN EmptyDataFrame
       ELSE IF ~({"Date", "Detail", "Amount"} \subseteq columns) THEN EmptyDataFrame
       ELSE IF \E i \in 1..Len(csv.rows) : parsed[i].Date = ValueError THEN EmptyDataFrame
       ELSE Frame(SelectSeq(parsed, LAMBDA row : notna(row.Date)))

\* main(), lines 292-302: the frame goes to process_transactions unless it
\* is empty
CallExtractTransactionsFromCsv ==
    /\ pc = "main"
    /\ \E fallbacks \in CellFallbacks(arg.rows) :
           LET df == extract_transactions_from_csv(arg, fallbacks)
           IN /\ arg' = df
              /\ pc' = IF df.rows = <<>> THEN "exit" ELSE "call"
    /\ origin' = arg
    /\ UNCHANGED <<ret, loopVars, batchVars>>

NextCsv == CallExtractTransactionsFromCsv \/ CallProcessTransactions

SpecCsv == InitCsv /\ [][NextCsv]_vars

\* The rows of the file that have a date one of the three forms reads and a
\* numeric amount cell
NumericRows ==
    {i \in 1..Len(origin.rows) :
        /\ Truthy(origin.rows[i].Date) /\ ~ReachesFallback(origin.rows[i].Date)
        /\ origin.rows[i].Amount.type # "str"}

\* C26: a row of the table whose Amount cell is already a number v becomes a
\* record of amount v, in outgoing when v < 0 and in incoming when v >= 0
C26_NumericAmountsKept ==
    (pc = "process_transactions" /\ origin # PyNone) =>
        \A i \in NumericRows :
            LET v == origin.rows[i].Amount
                landed == ret[IF v.n < 0 THEN 2 ELSE 1].rows
            IN \E k \in 1..Len(landed) :
                   landed[k].Detail = origin.rows[i].Detail /\ landed[k].Amount = v

-----------------------------------------------------------------------------
(* A claim about the lines outside the block, checked under SpecPages.     *)

\* C27: outside the block a line that is not a header changes nothing, not
\* the pending record, not the collected records, not the block flag; a
\* header line opens the block again and leaves the records as they are, so
\* the records of the pages that follow are collected
C27_OutsideBlockNothingChanges ==
    [][\A line \in arg.pool :
           (Reading(line) /\ lines' = Append(lines, line))
               => /\ (~in_transactions /\ ~Scanned[line].header)
                         => UNCHANGED <<in_transactions, current_transaction,
                                        transactions, result, pc>>
                  /\ (Scanned[line].text # "" /\ Scanned[line].header)
                         => /\ in_transactions'
                            /\ UNCHANGED <<current_transaction, transactions, result, pc>>
      ]_vars

\* A date-leading line after the closing line of the first page left no
\* record, and the same line after the header of the second page did
C27_Witness ==
    /\ pc = "done"
    /\ lines = <<"Description Incoming Outgoing Amount",
                 "Closing Balance 1,200.00",
                 "30 September 2025 Payment to Shop 50.00 1,200.00",
                 "Description Incoming Outgoing Amount",
                 "30 September 2025 Payment to Shop 50.00 1,200.00">>
    /\ Len(result.rows) = 1
    /\ result.rows[1].Detail = "Payment to Shop"

-----------------------------------------------------------------------------
(* A claim about the length of the labels, checked under SpecType.         *)

\* C28: every label get_transaction_type returns has at most max_len
\* characters, so the Type shown is the whole capitalized label
C28_TypeNeverShortened ==
    pc = "get_transaction_type" =>
        /\ Len(ret.s) <= max_len
        /\ limit_length(capitalize_first(ret.s)) = capitalize_first(ret.s)

\* The one label of the rules that is longer than max_len is not returned
\* for its own phrase
C28_Witness ==
    /\ pc = "get_transaction_type"
    /\ arg = PyStr("standing instruction charge")
    /\ Len(arg.s) > max_len
    /\ \E i \in 1..Len(Rules) : Rules[i].label = arg.s
    /\ ret = PyStr("bank charge")


\* ---------------------------------------------------------------------------
\* batch_statement_processor.py: one run of main() over the selected files.
\* A selected file is its path and what the processing does with it:
\* "transactions" (a non-empty DataFrame, exported), "none" (an empty
\* DataFrame), "unreadable" (the extraction raises) or "unwritable"
\* (export_to_excel raises inside its `with pd.ExcelWriter` block);
\* process_statement catches what is raised.
\* ---------------------------------------------------------------------------

MaxFiles == 3

StatementPaths == {"a//stmt.pdf", "a/stmt.csv", "a/notes.txt", "./jan.CSV", "a/b.pdf/"}

Contents == {"transactions", "none", "unreadable", "unwritable"}

\* A path that ends in a slash names a directory, which no extraction can open
SelectedFiles ==
    {file \in [path : StatementPaths, content : Contents] :
        EndsWith(file.path, "/") => file.content = "unreadable"}

\* Path(p) of pathlib on POSIX: the root is "//" for exactly two leading
\* slashes, "/" for any other number of them, and the parts are the texts
\* between slashes that are neither empty nor "."
PathRoot(p) ==
    IF StartsWith(p, "//") /\ ~StartsWith(p, "///") THEN "//"
    ELSE IF StartsWith(p, "/") THEN "/"
    ELSE ""

RECURSIVE PathParts(_)
PathParts(p) ==
    IF p = "" THEN <<>>
    ELSE LET slash == RFind(p, "/")
             last == Drop(p, slash + 1)
             before == IF slash < 0 THEN "" ELSE Take(p, slash)
         IN IF last \in {"", "."} THEN PathParts(before)
            ELSE Append(PathParts(before), last)

RECURSIVE PathJoined(_)
PathJoined(parts) ==
    IF Len(parts) = 0 THEN ""
    ELSE IF Len(parts) = 1 THEN parts[1]
    ELSE PathJoined(SubSeq(parts, 1, Len(parts) - 1)) \o "/" \o parts[Len(parts)]

\* str(path)
PathStr(root, parts) ==
    IF root = "" /\ parts = <<>> THEN "." ELSE root \o PathJoined(parts)

\* Path(p).name, Path(p).parent, Path(p).suffix and Path(p).stem
NameOf(parts) == IF parts = <<>> THEN "" ELSE parts[Len(parts)]
PathName(p) == NameOf(PathParts(p))

ParentOf(root, parts) ==
    PathStr(root, IF parts = <<>> THEN parts ELSE SubSeq(parts, 1, Len(parts) - 1))
PathParent(p) == ParentOf(PathRoot(p), PathParts(p))

SuffixOf(name, dot) == IF dot > 0 /\ dot < Len(name) - 1 THEN Drop(name, dot) ELSE ""
PathSuffix(p) == SuffixOf(PathName(p), RFind(PathName(p), "."))

StemOf(name, suffix) == Take(name, Len(name) - Len(suffix))
PathStem(p) == StemOf(PathName(p), PathSuffix(p))

\* str(directory / name)
PathJoin(directory, name) ==
    IF directory = "." THEN name
    ELSE IF directory \in {"/", "//"} THEN directory \o name
    ELSE directory \o "/" \o name

detect_file_type(file_path) ==
    LET suffix == Lowered(PathSuffix(file_path))
    IN  IF suffix = ".pdf" THEN PyStr("pdf")
        ELSE IF suffix = ".csv" THEN PyStr("csv")
        ELSE PyNone

get_output_path(input_path) ==
    PathJoin(PathParent(input_path), "categorized_" \o PathStem(input_path) \o ".xlsx")

\* The type, the output path and the file of each path, worked out once
FileTypes == [path \in StatementPaths |-> detect_file_type(path)]
OutputPaths == [path \in StatementPaths |-> get_output_path(path)]
FileOf == [path \in StatementPaths |-> <<PathRoot(path), PathParts(path)>>]

\* process_statement with no test of df.empty
process_statement_unchecked(file) ==
    FileTypes[file.path] # PyNone /\ file.content \notin {"unreadable", "unwritable"}

\* the value process_statement returns: True after export_to_excel has written
process_statement(file) ==
    /\ FileTypes[file.path] # PyNone
    /\ file.content # "unreadable"
    /\ file.content # "none"
    /\ file.content # "unwritable"

InitBatch ==
    /\ arg \in {files \in UNION {[1..n -> SelectedFiles] : n \in 1..MaxFiles} :
                   \A i, j \in DOMAIN files :
                       FileOf[files[i].path] = FileOf[files[j].path] => i = j}
    /\ origin = PyNone
    /\ ret = Pending
    /\ NoLoop
    /\ NoBatch
    /\ pc = "batch"

\* one turn of the loop on a file of no supported type
UnsupportedFile ==
    /\ pc = "batch"
    /\ handled < Len(arg)
    /\ FileTypes[arg[handled + 1].path] = PyNone
    /\ failed' = failed + 1
    /\ handled' = handled + 1
    /\ UNCHANGED <<arg, origin, ret, loopVars, successful, output_files, workbooks, pc>>

\* one turn of the loop on a file process_statement writes a workbook for
ProcessedFile ==
    /\ pc = "batch"
    /\ handled < Len(arg)
    /\ FileTypes[arg[handled + 1].path] # PyNone
    /\ process_statement(arg[handled + 1])
    /\ LET output_path == OutputPaths[arg[handled + 1].path]
       IN  /\ workbooks' = (output_path :> arg[handled + 1].path) @@ workbooks
           /\ output_files' = Append(output_files, output_path)
    /\ successful' = successful + 1
    /\ handled' = handled + 1
    /\ UNCHANGED <<arg, origin, ret, loopVars, failed, pc>>

\* one turn of the loop on a file process_statement returns False for. When
\* export_to_excel raises inside the `with` block, ExcelWriter.__exit__ closes
\* the writer, which saves what was written so far at the output path.
FailedFile ==
    /\ pc = "batch"
    /\ handled < Len(arg)
    /\ FileTypes[arg[handled + 1].path] # PyNone
    /\ ~process_statement(arg[handled + 1])
    /\ IF arg[handled + 1].content = "unwritable"
       THEN workbooks' = (OutputPaths[arg[handled + 1].path] :> arg[handled + 1].path)
                             @@ workbooks
       ELSE UNCHANGED workbooks
    /\ failed' = failed + 1
    /\ handled' = handled + 1
    /\ UNCHANGED <<arg, origin, ret, loopVars, successful, output_files, pc>>

\* the loop is over: the summary is printed
Summary ==
    /\ pc = "batch"
    /\ handled = Len(arg)
    /\ ret' = [total |-> Len(arg), successful |-> successful, failed |-> failed]
    /\ pc' = "summary"
    /\ UNCHANGED <<arg, origin, loopVars, batchVars>>

NextBatch == UnsupportedFile \/ ProcessedFile \/ FailedFile \/ Summary

SpecBatch == InitBatch /\ [][NextBatch]_vars

\* C29: the workbook written for one selected file is never replaced by the
\* workbook of another selected file: different input files have different
\* output paths.
C29_NoWorkbookOverwritten ==
    [][\A output_path \in DOMAIN workbooks :
           workbooks'[output_path] = workbooks[output_path]]_vars

\* the files among the first n selected that process_statement cannot succeed on
Failing(n) ==
    {i \in 1..n : \/ FileTypes[arg[i].path] = PyNone
                  \/ arg[i].content \in {"none", "unreadable", "unwritable"}}

\* C30: throughout the batch the two counters add up to the number of files
\* handled, the failed counter is the number of handled files that are
\* unsupported, empty or unreadable, there is one output path per success, and
\* the summary comes only after every selected file was handled.
C30_BatchAccounting ==
    pc \in {"batch", "summary"} =>
        /\ successful + failed = handled
        /\ failed = Cardinality(Failing(handled))
        /\ Len(output_files) = successful
        /\ pc = "summary" => handled = Len(arg) /\ ret.total = successful + failed

C30_Witness ==
    /\ pc = "summary"
    /\ Len(arg) = 3
    /\ detect_file_type(arg[1].path) = PyNone
    /\ arg[2].content = "none" /\ detect_file_type(arg[2].path) # PyNone
    /\ arg[3].content = "transactions"
    /\ successful = 1
    /\ failed = 2
    /\ output_files = <<get_output_path(arg[3].path)>>

=============================================================================
